---- MODULE Spec2Model ----
(***************************************************************************)
(* AI code review bot: the review pipeline of backend/main.py (the         *)
(* deployed FastAPI application, review_code and analyze_code_with_ai) and *)
(* of backend/services/code_review_service.py (CodeReviewService), with    *)
(* the response normalisation (fence stripping, json.loads, defaults) and  *)
(* the error classification (substring tests on the failure message).      *)
(*                                                                         *)
(* Python strings are sequences of one-character strings, so that          *)
(* str.lower, str.strip, the "in" substring test and json.loads are        *)
(* computed character by character.                                        *)
(***************************************************************************)
EXTENDS Integers, Sequences, FiniteSets, TLC

(***************************************************************************)
(* Bounds of the model.                                                    *)
(***************************************************************************)
\* An adapter failure message is a concatenation of 1..MaxFrags fragments.
MaxFrags == 2
\* A reply body is a concatenation of 0..MaxToks JSON tokens (or one of the
\* generated JSON objects).
MaxToks == 2
\* The nesting depth json.loads can reach before the scanner's
\* Py_EnterRecursiveCall raises RecursionError: sys.getrecursionlimit() less
\* the frames in use (1000 by default in CPython), scaled down to the sizes
\* of the replies of the model.
RecursionLimit == 4

(***************************************************************************)
(* Python str operations.                                                  *)
(***************************************************************************)
\* The character U+0060 (a TLA+ string cannot hold it).
Backtick == "BACKTICK"

Upper == <<"A","B","C","D","E","F","G","H","I","J","K","L","M","N","O","P","Q","R","S","T","U","V","W","X","Y","Z">>
Lowercase == <<"a","b","c","d","e","f","g","h","i","j","k","l","m","n","o","p","q","r","s","t","u","v","w","x","y","z">>

\* str.lower on one character
LowerChar(c) ==
    IF \E i \in 1..Len(Upper) : Upper[i] = c
    THEN Lowercase[CHOOSE i \in 1..Len(Upper) : Upper[i] = c]
    ELSE c

\* str.lower
LowerStr(s) == [i \in 1..Len(s) |-> LowerChar(s[i])]

\* k in s
Contains(s, k) ==
    \E i \in 0..(Len(s) - Len(k)) : SubSeq(s, i + 1, i + Len(k)) = k

\* s.startswith(k)
StartsWith(s, k) == Len(s) >= Len(k) /\ SubSeq(s, 1, Len(k)) = k

\* The characters str.strip() removes, among those of the model's alphabet.
PyWhitespace == {" ", "\n", "\t", "\r"}

\* s.lstrip(chars) and s.rstrip(chars): drop the leading (trailing) run of
\* characters that belong to the SET chars.
RECURSIVE LStripSet(_, _)
LStripSet(s, chars) ==
    IF s # <<>> /\ Head(s) \in chars THEN LStripSet(Tail(s), chars) ELSE s

RECURSIVE RStripSet(_, _)
RStripSet(s, chars) ==
    IF s # <<>> /\ s[Len(s)] \in chars
    THEN RStripSet(SubSeq(s, 1, Len(s) - 1), chars)
    ELSE s

\* s.strip(chars): the argument is a set of characters, not a prefix/suffix.
StripSet(s, chars) == RStripSet(LStripSet(s, chars), chars)

\* s.strip()
Strip(s) == StripSet(s, PyWhitespace)

\* "sep".join of the sequence of strings ss, for the empty separator
RECURSIVE Concat(_)
Concat(ss) == IF ss = <<>> THEN <<>> ELSE Head(ss) \o Concat(Tail(ss))

(***************************************************************************)
(* exceptions.py: the five categorized failures.                           *)
(***************************************************************************)
create_quota_exception ==
    [status_code |-> 402,
     detail |-> [error |-> "OpenAI API Quota Exceeded",
                 message |-> "You have exceeded your OpenAI API quota. Please check your plan and billing details.",
                 help |-> "Visit https://platform.openai.com/account/billing to add credits or upgrade your plan.",
                 docs |-> "https://platform.openai.com/docs/guides/error-codes/api-errors"]]

create_rate_limit_exception ==
    [status_code |-> 429,
     detail |-> [error |-> "Rate Limit Exceeded",
                 message |-> "Too many requests. Please wait a moment and try again.",
                 help |-> "The API has rate limits. Please wait before making another request."]]

\* A variant of the table in which every provider gets OpenAI's row.
provider_configs_openai_row(provider) ==
    CASE provider \in {"openai", "huggingface", "groq", "gemini"} ->
           <<"OpenAI", "OPENAI_API_KEY", "https://platform.openai.com/api-keys">>
      [] OTHER -> <<"Unknown", "API_KEY", "">>

\* provider_configs.get(provider, ("Unknown", "API_KEY", ""))
provider_configs(provider) ==
    CASE provider = "openai" ->
           <<"OpenAI", "OPENAI_API_KEY", "https://platform.openai.com/api-keys">>
      [] provider = "huggingface" ->
           <<"Hugging Face", "HUGGINGFACE_API_KEY", "https://huggingface.co/settings/tokens">>
      [] provider = "groq" ->
           <<"Groq", "GROQ_API_KEY", "https://console.groq.com/keys">>
      [] provider = "gemini" ->
           <<"Google Gemini", "GEMINI_API_KEY", "https://makersuite.google.com/app/apikey">>
      [] OTHER -> <<"Unknown", "API_KEY", "">>

\* An f-string is the tuple of its literal and interpolated parts.
create_authentication_exception(provider) ==
    LET cfg == provider_configs(provider) IN
    [status_code |-> 401,
     detail |-> [error |-> <<cfg[1], " API Authentication Failed">>,
                 message |-> <<"Invalid API key. Please check your ", cfg[2],
                               " in the backend/.env file.">>,
                 help |-> <<"Get your API key from ", cfg[3]>>]]

create_generic_api_exception(message) ==
    [status_code |-> 502,
     detail |-> [error |-> "OpenAI API Error",
                 message |-> message,
                 help |-> "There was an issue with the OpenAI API. Please try again later."]]

create_unexpected_exception(message) ==
    [status_code |-> 500,
     detail |-> [error |-> "Unexpected Error",
                 message |-> <<"An unexpected error occurred: ", message>>,
                 help |-> "Please check the server logs for more details."]]

(***************************************************************************)
(* The error classifier.                                                   *)
(***************************************************************************)
kw_quota == <<"q","u","o","t","a">>
kw_billing == <<"b","i","l","l","i","n","g">>
kw_exceeded == <<"e","x","c","e","e","d","e","d">>
kw_rate_limit == <<"r","a","t","e"," ","l","i","m","i","t">>
kw_too_many_requests == <<"t","o","o"," ","m","a","n","y"," ","r","e","q","u","e","s","t","s">>
kw_authentication == <<"a","u","t","h","e","n","t","i","c","a","t","i","o","n">>
kw_invalid == <<"i","n","v","a","l","i","d">>
kw_key == <<"k","e","y">>
kw_unauthorized == <<"u","n","a","u","t","h","o","r","i","z","e","d">>
kw_api_error == <<"a","p","i"," ","e","r","r","o","r">>
kw_api == <<"a","p","i">>

\* The three keyword tests, shared by both classifiers.
IsQuotaMsg(m) ==
    Contains(m, kw_quota) \/ Contains(m, kw_billing) \/ Contains(m, kw_exceeded)

IsRateLimitMsg(m) ==
    Contains(m, kw_rate_limit) \/ Contains(m, kw_too_many_requests)

IsAuthMsg(m) ==
    \/ Contains(m, kw_authentication)
    \/ (Contains(m, kw_invalid) /\ Contains(m, kw_key))
    \/ Contains(m, kw_unauthorized)

IsApiMsg(m) == Contains(m, kw_api_error) \/ Contains(m, kw_api)

\* A variant of the chain that tests the rate-limit keywords before the
\* quota keywords.
handle_lowered_rate_first(provider, msg, error_msg) ==
    IF IsRateLimitMsg(error_msg) THEN create_rate_limit_exception
    ELSE IF IsQuotaMsg(error_msg) THEN create_quota_exception
    ELSE IF IsAuthMsg(error_msg) THEN create_authentication_exception(provider)
    ELSE IF IsApiMsg(error_msg) THEN create_generic_api_exception(msg)
    ELSE create_unexpected_exception(msg)

\* CodeReviewService._handle_exception: the HTTPException it raises for the
\* failure whose str() is msg, with AI_PROVIDER = provider.
handle_lowered(provider, msg, error_msg) ==
    IF IsQuotaMsg(error_msg) THEN create_quota_exception
    ELSE IF IsRateLimitMsg(error_msg) THEN create_rate_limit_exception
    ELSE IF IsAuthMsg(error_msg) THEN create_authentication_exception(provider)
    ELSE IF IsApiMsg(error_msg) THEN create_generic_api_exception(msg)
    ELSE create_unexpected_exception(msg)

_handle_exception(provider, msg) == handle_lowered(provider, msg, LowerStr(msg))

\* main.py analyze_code_with_ai, the handler "except Exception as e" of lines
\* 410-465: the chain ends in an unconditional else (502); the second
\* "except Exception" (lines 466-475, status 500) can never be entered.
main_lowered(provider, msg, error_msg) ==
    IF IsQuotaMsg(error_msg) THEN create_quota_exception
    ELSE IF IsRateLimitMsg(error_msg) THEN create_rate_limit_exception
    ELSE IF IsAuthMsg(error_msg) THEN create_authentication_exception(provider)
    ELSE create_generic_api_exception(msg)

main_except_handler(provider, msg) == main_lowered(provider, msg, LowerStr(msg))

(***************************************************************************)
(* Python values, as json.loads builds them.                               *)
(***************************************************************************)
PyNone == [t |-> "NoneType"]
PyBool(b) == [t |-> "bool", v |-> b]
PyInt(n) == [t |-> "int", v |-> n]
PyStr(s) == [t |-> "str", v |-> s]
PyList(xs) == [t |-> "list", v |-> xs]
\* A dict is the function from its keys (strings) to their values.
PyDict(f) == [t |-> "dict", v |-> f]
EmptyDict == PyDict([k \in {} |-> PyNone])

\* d[key] = value
DictSet(f, key, value) ==
    [k \in (DOMAIN f) \cup {key} |-> IF k = key THEN value ELSE f[k]]

\* d.get(key, default), d a dict
DictGet(d, key, default) == IF key \in DOMAIN d.v THEN d.v[key] ELSE default

(***************************************************************************)
(* json.loads (json.decoder.JSONDecoder.decode and the scanner), for       *)
(* documents without backslash escapes, fractions and exponents.           *)
(* Indices are Python's: 0-based, s[i] is s[i + 1] here.                   *)
(***************************************************************************)
JsonWhitespace == {" ", "\t", "\n", "\r"}
ControlChars == {"\n", "\t", "\r"}
Digits == <<"0","1","2","3","4","5","6","7","8","9">>
IsDigit(c) == \E i \in 1..Len(Digits) : Digits[i] = c
DigitValue(c) == (CHOOSE i \in 1..Len(Digits) : Digits[i] = c) - 1

\* s[i:i+1]
At(s, i) == IF i < Len(s) THEN s[i + 1] ELSE ""

\* s[i:i+n]
Slice(s, i, n) == SubSeq(s, i + 1, IF i + n <= Len(s) THEN i + n ELSE Len(s))

\* WHITESPACE.match(s, i).end()
RECURSIVE SkipWs(_, _)
SkipWs(s, i) == IF At(s, i) \in JsonWhitespace THEN SkipWs(s, i + 1) ELSE i

\* The three ways a scan ends: a value and the index after it, a
\* JSONDecodeError(msg, doc, pos), StopIteration(pos) or a RecursionError.
ScanOk(v, e) == [ok |-> TRUE, val |-> v, end |-> e]
ScanErr(m, p) == [ok |-> FALSE, kind |-> "JSONDecodeError", msg |-> m, pos |-> p]
ScanStop(p) == [ok |-> FALSE, kind |-> "StopIteration", msg |-> "", pos |-> p]
ScanRecursion(what) ==
    [ok |-> FALSE, kind |-> "RecursionError", msg |-> what, pos |-> 0]

\* scanstring(s, end): end is the index after the opening quote; terms are
\* the indices of the quotes and control characters from there.
StringEnd(s, end, j) ==
    IF At(s, j) = "\"" THEN ScanOk(PyStr(Slice(s, end, j - end)), j + 1)
    ELSE ScanErr("Invalid control character at", j)

StringTerms(s, end, terms) ==
    IF terms = {} THEN ScanErr("Unterminated string starting at", end - 1)
    ELSE StringEnd(s, end, CHOOSE x \in terms : \A y \in terms : x <= y)

scanstring(s, end) ==
    StringTerms(s, end,
                {j \in end..(Len(s) - 1) : At(s, j) \in ControlChars \cup {"\""}})

\* NUMBER_RE.match(s, idx): (0|[1-9][0-9]*), the index after the match
RECURSIVE SkipDigits(_, _)
SkipDigits(s, i) == IF IsDigit(At(s, i)) THEN SkipDigits(s, i + 1) ELSE i

NumberEnd(s, idx) == IF At(s, idx) = "0" THEN idx + 1 ELSE SkipDigits(s, idx)

RECURSIVE IntOf(_)
IntOf(ds) ==
    IF ds = <<>> THEN 0
    ELSE 10 * IntOf(SubSeq(ds, 1, Len(ds) - 1)) + DigitValue(ds[Len(ds)])

\* A scan that ended with StopIteration inside decode, JSONObject or
\* JSONArray is raised again as JSONDecodeError("Expecting value").
ExpectingValue(r) ==
    IF ~r.ok /\ r.kind = "StopIteration" THEN ScanErr("Expecting value", r.pos)
    ELSE r

RECURSIVE scan_once(_, _, _)
RECURSIVE ObjectLoop(_, _, _, _)
RECURSIVE ArrayLoop(_, _, _, _)

\* JSONObject's loop after a pair; end is the index of the first non-blank
\* after the value, next the index of the first non-blank after end + 1.
ObjectAfterPair(s, end, next, pairs, depth) ==
    IF At(s, end) = "}" THEN ScanOk(PyDict(pairs), end + 1)
    ELSE IF At(s, end) # "," THEN ScanErr("Expecting ',' delimiter", end)
    ELSE IF At(s, next) # "\""
    THEN ScanErr("Expecting property name enclosed in double quotes", next)
    ELSE ObjectLoop(s, next + 1, pairs, depth)

\* ... after the value of the pair has been scanned
ObjectAfterValue(s, key, value, pairs, depth) ==
    IF ~value.ok THEN ExpectingValue(value)
    ELSE ObjectAfterPair(s, SkipWs(s, value.end),
                         SkipWs(s, SkipWs(s, value.end) + 1),
                         DictSet(pairs, key.val.v, value.val), depth)

\* ... after the key; end is the index where the colon is expected
ObjectAfterKey(s, key, end, pairs, depth) ==
    IF At(s, end) # ":" THEN ScanErr("Expecting ':' delimiter", end)
    ELSE ObjectAfterValue(s, key, scan_once(s, SkipWs(s, end + 1), depth),
                          pairs, depth)

ObjectKey(s, key, pairs, depth) ==
    IF ~key.ok THEN key
    ELSE ObjectAfterKey(s, key,
                        IF At(s, key.end) # ":" THEN SkipWs(s, key.end) ELSE key.end,
                        pairs, depth)

\* One turn of JSONObject's loop: end is the index after the key's opening
\* quote, pairs the function of the pairs read so far.
ObjectLoop(s, end, pairs, depth) == ObjectKey(s, scanstring(s, end), pairs, depth)

\* JSONObject((s, end), ...): end is the index after the opening brace, end1
\* the index of the first non-blank from there.
ObjectStart(s, end, end1, depth) ==
    IF At(s, end) = "\"" THEN ObjectLoop(s, end + 1, <<>>, depth)
    ELSE IF At(s, end1) = "}" THEN ScanOk(EmptyDict, end1 + 1)
    ELSE IF At(s, end1) # "\""
    THEN ScanErr("Expecting property name enclosed in double quotes", end1)
    ELSE ObjectLoop(s, end1 + 1, <<>>, depth)

JSONObject(s, end, depth) == ObjectStart(s, end, SkipWs(s, end), depth)

\* JSONArray's loop after a value; end is the index of the first non-blank
\* after it.
ArrayAfterValue(s, end, values, depth) ==
    IF At(s, end) = "]" THEN ScanOk(PyList(values), end + 1)
    ELSE IF At(s, end) # "," THEN ScanErr("Expecting ',' delimiter", end)
    ELSE ArrayLoop(s, SkipWs(s, end + 1), values, depth)

ArrayValue(s, value, values, depth) ==
    IF ~value.ok THEN ExpectingValue(value)
    ELSE ArrayAfterValue(s, SkipWs(s, value.end), Append(values, value.val), depth)

ArrayLoop(s, end, values, depth) ==
    ArrayValue(s, scan_once(s, end, depth), values, depth)

\* JSONArray((s, end), ...): end is the index of the first non-blank after
\* the opening bracket.
JSONArray(s, end, depth) ==
    IF At(s, end) = "]" THEN ScanOk(PyList(<<>>), end + 1)
    ELSE ArrayLoop(s, end, <<>>, depth)

ScanNumber(s, idx, numEnd) == ScanOk(PyInt(IntOf(Slice(s, idx, numEnd - idx))), numEnd)

\* NUMBER_RE with its optional minus sign
ScanNegative(s, idx, numEnd) ==
    ScanOk(PyInt(0 - IntOf(Slice(s, idx + 1, numEnd - idx - 1))), numEnd)

\* scan_once(string, idx); depth counts the enclosing objects and arrays.
scan_once(s, idx, depth) ==
    IF idx >= Len(s) THEN ScanStop(idx)
    ELSE IF s[idx + 1] = "\"" THEN scanstring(s, idx + 1)
    ELSE IF s[idx + 1] \in {"{", "["}
    THEN IF depth >= RecursionLimit
         THEN ScanRecursion(IF s[idx + 1] = "{" THEN "object" ELSE "array")
         ELSE IF s[idx + 1] = "{" THEN JSONObject(s, idx + 1, depth + 1)
         ELSE JSONArray(s, SkipWs(s, idx + 1), depth + 1)
    ELSE IF s[idx + 1] = "n" /\ Slice(s, idx, 4) = <<"n","u","l","l">>
    THEN ScanOk(PyNone, idx + 4)
    ELSE IF s[idx + 1] = "t" /\ Slice(s, idx, 4) = <<"t","r","u","e">>
    THEN ScanOk(PyBool(TRUE), idx + 4)
    ELSE IF s[idx + 1] = "f" /\ Slice(s, idx, 5) = <<"f","a","l","s","e">>
    THEN ScanOk(PyBool(FALSE), idx + 5)
    ELSE IF IsDigit(s[idx + 1]) THEN ScanNumber(s, idx, NumberEnd(s, idx))
    ELSE IF s[idx + 1] = "-" /\ IsDigit(At(s, idx + 1))
    THEN ScanNegative(s, idx, NumberEnd(s, idx + 1))
    ELSE ScanStop(idx)

\* JSONDecoder.decode(s): raw_decode from the first non-blank, then the rest
\* must be blank.
DecodeEnd(s, r, end) ==
    IF ~r.ok THEN ExpectingValue(r)
    ELSE IF end # Len(s) THEN ScanErr("Extra data", end)
    ELSE r

Decoded(s, r) == DecodeEnd(s, r, IF r.ok THEN SkipWs(s, r.end) ELSE 0)

json_loads(s) == Decoded(s, scan_once(s, SkipWs(s, 0), 0))

\* str(JSONDecodeError(msg, doc, pos)): "msg: line L column C (char pos)"
ErrorStr(e, nls) ==
    [msg |-> e.msg, lineno |-> Cardinality(nls) + 1,
     colno |-> e.pos - (IF nls = {} THEN -1
                        ELSE CHOOSE x \in nls : \A y \in nls : y <= x),
     pos |-> e.pos]

JSONDecodeErrorStr(doc, e) ==
    ErrorStr(e, {j \in 0..(e.pos - 1) : At(doc, j) = "\n"})

(***************************************************************************)
(* str() and repr() of the values json.loads builds, for strings without   *)
(* quotes, backslashes and control characters.                             *)
(***************************************************************************)
RECURSIVE NatChars(_)
NatChars(n) ==
    IF n < 10 THEN <<Digits[n + 1]>>
    ELSE NatChars(n \div 10) \o <<Digits[(n % 10) + 1]>>

IntChars(n) == IF n < 0 THEN <<"-">> \o NatChars(0 - n) ELSE NatChars(n)

RECURSIVE JoinWith(_, _)
JoinWith(sep, ss) ==
    IF ss = <<>> THEN <<>>
    ELSE IF Len(ss) = 1 THEN ss[1]
    ELSE ss[1] \o sep \o JoinWith(sep, Tail(ss))

\* The keys of a dict in the order Python keeps them (insertion order): the
\* model's dict is a function and keeps no order, so this is the order of a
\* dict of at most one key; the replies whose keys are enumerated have no
\* more.
RECURSIVE KeySeq(_)
KeySeq(keys) ==
    IF keys = {} THEN <<>>
    ELSE <<CHOOSE k \in keys : TRUE>>
           \o KeySeq(keys \ {CHOOSE k \in keys : TRUE})

RECURSIVE PyRepr(_)
ReprItem(d, k) == Concat(<<<<"'">>, k, <<"'",":"," ">>, PyRepr(d[k])>>)

PyRepr(v) ==
    CASE v.t = "NoneType" -> <<"N","o","n","e">>
      [] v.t = "bool" -> IF v.v THEN <<"T","r","u","e">> ELSE <<"F","a","l","s","e">>
      [] v.t = "int" -> IntChars(v.v)
      [] v.t = "str" -> Concat(<<<<"'">>, v.v, <<"'">>>>)
      [] v.t = "list" ->
           Concat(<<<<"[">>, JoinWith(<<","," ">>, [i \in 1..Len(v.v) |-> PyRepr(v.v[i])]),
                    <<"]">>>>)
      [] OTHER ->
           Concat(<<<<"{">>,
                    JoinWith(<<","," ">>,
                             [i \in 1..Len(KeySeq(DOMAIN v.v)) |->
                                 ReprItem(v.v, KeySeq(DOMAIN v.v)[i])]),
                    <<"}">>>>)

\* str(v), as an f-string interpolates it
PyStrOf(v) == IF v.t = "str" THEN v.v ELSE PyRepr(v)

(***************************************************************************)
(* The response normalizer.                                                *)
(***************************************************************************)
k_summary == <<"s","u","m","m","a","r","y">>
k_issues == <<"i","s","s","u","e","s">>
k_suggestions == <<"s","u","g","g","e","s","t","i","o","n","s">>
k_improved_code == <<"i","m","p","r","o","v","e","d","_","c","o","d","e">>

\* _clean_content (and main.py lines 383-385):
\* content.strip("```json").strip("```").strip() when content starts with
\* a fence; str.strip(chars) strips the characters of chars.
_clean_content(content) ==
    IF StartsWith(content, <<Backtick, Backtick, Backtick>>)
    THEN Strip(StripSet(StripSet(content, {Backtick, "j", "s", "o", "n"}),
                        {Backtick}))
    ELSE content

\* d.get(key) or default
DictGetOr(d, key, default) ==
    IF key \in DOMAIN d.v /\ d.v[key] # [t |-> "NoneType"] THEN d.v[key] ELSE default

\* A variant that substitutes the default for a null value too
\* (analysis.get(key) or default).
StructuredResult_null_as_absent(analysis) ==
    [summary |-> DictGetOr(analysis, k_summary, PyStr(<<"A","n","a","l","y","s","i","s"," ","c","o","m","p","l","e","t","e","d",".">>)),
     issues |-> DictGetOr(analysis, k_issues, PyList(<<>>)),
     suggestions |-> DictGetOr(analysis, k_suggestions, PyList(<<>>)),
     improved_code |-> DictGetOr(analysis, k_improved_code, PyNone)]

\* The dictionary built from a parsed object: analysis.get(key, default).
StructuredResult(analysis) ==
    [summary |-> DictGet(analysis, k_summary, PyStr(<<"A","n","a","l","y","s","i","s"," ","c","o","m","p","l","e","t","e","d",".">>)),
     issues |-> DictGet(analysis, k_issues, PyList(<<>>)),
     suggestions |-> DictGet(analysis, k_suggestions, PyList(<<>>)),
     improved_code |-> DictGet(analysis, k_improved_code, PyNone)]

\* The dictionary returned by the handler of json.JSONDecodeError; err is
\* str(e).
DegradedResult(err) ==
    [summary |-> PyStr(<<"A","n","a","l","y","s","i","s"," ","c","o","m","p","l","e","t","e","d",","," ","b","u","t"," ","r","e","s","p","o","n","s","e"," ","f","o","r","m","a","t","t","i","n","g"," ","e","n","c","o","u","n","t","e","r","e","d"," ","a","n"," ","i","s","s","u","e",".">>),
     issues |-> PyList(<<
         PyDict([k \in {<<"t","y","p","e">>, <<"s","e","v","e","r","i","t","y">>, <<"d","e","s","c","r","i","p","t","i","o","n">>, <<"l","i","n","e">>} |->
                    CASE k = <<"t","y","p","e">> -> PyStr(<<"e","r","r","o","r">>)
                      [] k = <<"s","e","v","e","r","i","t","y">> -> PyStr(<<"m","e","d","i","u","m">>)
                      [] k = <<"d","e","s","c","r","i","p","t","i","o","n">> ->
                           PyStr(<<"Failed to parse AI response: ", err>>)
                      [] OTHER -> PyNone]) >>),
     suggestions |-> PyList(<<PyStr(<<"P","l","e","a","s","e"," ","t","r","y"," ","r","e","v","i","e","w","i","n","g"," ","t","h","e"," ","c","o","d","e"," ","a","g","a","i","n",".">>)>>),
     improved_code |-> PyNone]

\* str() of the AttributeError raised by analysis.get when analysis is not a
\* dict, and of the scanner's RecursionError.
AttributeErrorStr(typename) ==
    Concat(<<<<"'">>, typename, <<"'"," ","o","b","j","e","c","t"," ","h","a","s"," ","n","o"," ","a","t","t","r","i","b","u","t","e"," ","'","g","e","t","'">>>>)

TypeNameChars(t) ==
    CASE t = "NoneType" -> <<"N","o","n","e","T","y","p","e">>
      [] t = "bool" -> <<"b","o","o","l">>
      [] t = "int" -> <<"i","n","t">>
      [] t = "str" -> <<"s","t","r">>
      [] t = "list" -> <<"l","i","s","t">>
      [] OTHER -> <<"d","i","c","t">>

RecursionErrorStr(what) ==
    Concat(<<<<"m","a","x","i","m","u","m"," ","r","e","c","u","r","s","i","o","n"," ","d","e","p","t","h"," ","e","x","c","e","e","d","e","d"," ","w","h","i","l","e"," ","d","e","c","o","d","i","n","g"," ","a"," ","J","S","O","N"," ">>,
             IF what = "object" THEN <<"o","b","j","e","c","t">> ELSE <<"a","r","r","a","y">>,
             <<" ","f","r","o","m"," ","a"," ","u","n","i","c","o","d","e"," ","s","t","r","i","n","g">>>>)

\* What a call ends with: a returned value or a raised HTTPException.
Return(value) == [kind |-> "return", status_code |-> 200, value |-> value]
Raise(exc) == [kind |-> "raise", status_code |-> exc.status_code, value |-> exc.detail]

\* What the body of the try block raises after the adapter returned content,
\* if anything: [raised |-> "none", value |-> the parsed dict], or the
\* exception's class and str().
Loaded(cleaned, analysis) ==
    IF ~analysis.ok
    THEN IF analysis.kind = "RecursionError"
         THEN [raised |-> "RecursionError", str |-> RecursionErrorStr(analysis.msg)]
         ELSE [raised |-> "JSONDecodeError",
               str |-> JSONDecodeErrorStr(cleaned, analysis)]
    ELSE IF analysis.val.t # "dict"
    THEN [raised |-> "AttributeError",
          str |-> AttributeErrorStr(TypeNameChars(analysis.val.t))]
    ELSE [raised |-> "none", value |-> analysis.val]

Cleaned(cleaned) == Loaded(cleaned, json_loads(cleaned))

TryNormalize(content) == Cleaned(_clean_content(content))

(***************************************************************************)
(* The adapters' replies: what provider.analyze_code (or the provider      *)
(* branch of analyze_code_with_ai) ends with.                              *)
(***************************************************************************)
ReplyText(text) == [kind |-> "text", text |-> text]
ReplyRaise(msg) == [kind |-> "raise", text |-> msg]

KnownProviders == {"openai", "huggingface", "groq", "gemini"}

\* The configured identifier, as it is interpolated in a message.
ProviderChars(provider) ==
    CASE provider = "openai" -> <<"o","p","e","n","a","i">>
      [] provider = "huggingface" -> <<"h","u","g","g","i","n","g","f","a","c","e">>
      [] provider = "groq" -> <<"g","r","o","q">>
      [] provider = "gemini" -> <<"g","e","m","i","n","i">>
      [] OTHER -> <<"a","z","u","r","e">>

(***************************************************************************)
(* providers/huggingface_provider.py: HuggingFaceProvider (main.py lines   *)
(* 171-293 repeat the same steps inline).                                  *)
(* A response is [status_code, json_ctype, text]: json_ctype says whether  *)
(* its content-type header starts with application/json, response.json()  *)
(* is json.loads(text).                                                    *)
(***************************************************************************)
\* config.HUGGINGFACE_MODEL, by default
HUGGINGFACE_MODEL == <<"g","o","o","g","l","e","/","f","l","a","n","-","t","5","-","l","a","r","g","e">>

\* What a step of the adapter ends with when it raises: the exception's
\* class and str().
HFRaise(cls, msg) == [kind |-> "raise", exc |-> cls, text |-> msg]

\* time.sleep(secs)
Sleep(secs) ==
    IF secs < 0
    THEN HFRaise("ValueError", <<"s","l","e","e","p"," ","l","e","n","g","t","h"," ","m","u","s","t"," ","b","e"," ","n","o","n","-","n","e","g","a","t","i","v","e">>)
    ELSE [kind |-> "slept", secs |-> secs]

\* str() of the TypeError of estimated_time + 5
AddTypeErrorStr(t) ==
    IF t \in {"str", "list"}
    THEN Concat(<<<<"c","a","n"," ","o","n","l","y"," ","c","o","n","c","a","t","e","n","a","t","e"," ">>, TypeNameChars(t),
                  <<" ","(","n","o","t"," ","\"","i","n","t","\"",")"," ","t","o"," ">>, TypeNameChars(t)>>)
    ELSE Concat(<<<<"u","n","s","u","p","p","o","r","t","e","d"," ","o","p","e","r","a","n","d"," ","t","y","p","e","(","s",")"," ","f","o","r"," ","+",":"," ","'">>, TypeNameChars(t),
                  <<"'"," ","a","n","d"," ","'","i","n","t","'">>>>)

\* time.sleep(min(estimated_time + 5, 30))
WaitFor(estimated_time) ==
    IF estimated_time.t = "int"
    THEN Sleep(IF estimated_time.v + 5 < 30 THEN estimated_time.v + 5 ELSE 30)
    ELSE IF estimated_time.t = "bool"
    THEN Sleep(IF estimated_time.v THEN 6 ELSE 5)
    ELSE HFRaise("TypeError", AddTypeErrorStr(estimated_time.t))

\* error_info.get("estimated_time", 15), error_info what response.json()
\* returned or {}
WaitInfo(response, error_info) ==
    IF ~error_info.ok
    THEN HFRaise(error_info.kind, JSONDecodeErrorStr(response.text, error_info))
    ELSE IF error_info.val.t # "dict"
    THEN HFRaise("AttributeError",
                 AttributeErrorStr(TypeNameChars(error_info.val.t)))
    ELSE WaitFor(DictGet(error_info.val, <<"e","s","t","i","m","a","t","e","d","_","t","i","m","e">>, PyInt(15)))

\* _retry_after_wait up to the end of time.sleep (lines 142-148): the pause
\* slept, or what is raised instead.
retry_wait(response) ==
    WaitInfo(response,
             IF response.json_ctype THEN json_loads(response.text)
             ELSE ScanOk(EmptyDict, 0))

\* _validate_response: error_text
ErrorText(response, error_json) ==
    IF ~error_json.ok THEN response.text
    ELSE IF error_json.val.t = "dict"
    THEN PyStrOf(DictGet(error_json.val, <<"e","r","r","o","r">>,
                         PyStr(PyRepr(error_json.val))))
    ELSE PyStrOf(error_json.val)

\* A variant whose message for every status quotes the reply's error text.
ValidateFail_with_body(self, response, error_text) ==
    HFRaise("Exception",
        Concat(<<<<"H","u","g","g","i","n","g"," ","F","a","c","e"," ","A","P","I"," ","e","r","r","o","r"," ","(","S","t","a","t","u","s"," ">>,
                 IntChars(response.status_code), <<")",":"," ">>, error_text>>))

ValidateFail(self, response, error_text) ==
    HFRaise("Exception",
        CASE response.status_code = 401 ->
               <<"H","u","g","g","i","n","g"," ","F","a","c","e"," ","a","u","t","h","e","n","t","i","c","a","t","i","o","n"," ","f","a","i","l","e","d","."," ","C","h","e","c","k"," ","H","U","G","G","I","N","G","F","A","C","E","_","A","P","I","_","K","E","Y","."," ","G","e","t"," ","t","o","k","e","n",":"," ","h","t","t","p","s",":","/","/","h","u","g","g","i","n","g","f","a","c","e",".","c","o","/","s","e","t","t","i","n","g","s","/","t","o","k","e","n","s">>
          [] response.status_code = 403 ->
               <<"H","u","g","g","i","n","g"," ","F","a","c","e"," ","p","e","r","m","i","s","s","i","o","n"," ","e","r","r","o","r",":"," ","T","o","k","e","n"," ","n","e","e","d","s"," ","'","I","n","f","e","r","e","n","c","e"," ","A","P","I","'"," ","p","e","r","m","i","s","s","i","o","n","."," ","U","p","d","a","t","e"," ","a","t",":"," ","h","t","t","p","s",":","/","/","h","u","g","g","i","n","g","f","a","c","e",".","c","o","/","s","e","t","t","i","n","g","s","/","t","o","k","e","n","s">>
          [] response.status_code = 404 ->
               Concat(<<<<"M","o","d","e","l"," ","'">>, self.model,
                        <<"'"," ","n","o","t"," ","f","o","u","n","d","."," ","U","p","d","a","t","e"," ","H","U","G","G","I","N","G","F","A","C","E","_","M","O","D","E","L"," ","i","n"," ","b","a","c","k","e","n","d","/",".","e","n","v","."," ","T","r","y",":"," ","'","m","i","s","t","r","a","l","a","i","/","M","i","s","t","r","a","l","-","7","B","-","I","n","s","t","r","u","c","t","-","v","0",".","1","'">>>>)
          [] response.status_code = 410 ->
               <<"H","u","g","g","i","n","g"," ","F","a","c","e"," ","e","n","d","p","o","i","n","t"," ","d","e","p","r","e","c","a","t","e","d"," ","f","o","r"," ","t","h","i","s"," ","m","o","d","e","l","."," ","T","h","e"," ","c","o","d","e"," ","w","i","l","l"," ","t","r","y"," ","a"," ","s","i","m","p","l","e","r"," ","m","o","d","e","l","."," ","I","f"," ","t","h","i","s"," ","p","e","r","s","i","s","t","s",","," ","H","u","g","g","i","n","g"," ","F","a","c","e"," ","A","P","I"," ","m","a","y"," ","b","e"," ","t","e","m","p","o","r","a","r","i","l","y"," ","u","n","a","v","a","i","l","a","b","l","e","."," ","Y","o","u"," ","c","a","n"," ","t","r","y"," ","a","g","a","i","n"," ","l","a","t","e","r"," ","o","r"," ","u","s","e"," ","O","p","e","n","A","I"," ","i","f"," ","y","o","u"," ","h","a","v","e"," ","c","r","e","d","i","t","s",".">>
          [] OTHER ->
               Concat(<<<<"H","u","g","g","i","n","g"," ","F","a","c","e"," ","A","P","I"," ","e","r","r","o","r"," ","(","S","t","a","t","u","s"," ">>,
                        IntChars(response.status_code), <<")",":"," ">>, error_text>>))

\* _validate_response(response): returns, or raises
_validate_response(self, response) ==
    IF response.status_code = 200 THEN [kind |-> "ok"]
    ELSE ValidateFail(self, response, ErrorText(response, json_loads(response.text)))

\* content.split(sep)[-1]: what follows the last occurrence of sep
AfterLast(content, sep) ==
    SubSeq(content,
           (CHOOSE i \in 1..Len(content) :
               /\ Slice(content, i - 1, Len(sep)) = sep
               /\ \A j \in (i + 1)..Len(content) :
                      Slice(content, j - 1, Len(sep)) # sep) + Len(sep),
           Len(content))

AssistantHeader == <<"<","|","s","t","a","r","t","_","h","e","a","d","e","r","_","i","d","|",">","a","s","s","i","s","t","a","n","t","<","|","e","n","d","_","h","e","a","d","e","r","_","i","d","|",">">>

\* _extract_content from "if not content" on
Content(result, content) ==
    IF content = <<>>
    THEN HFRaise("Exception",
                 <<"E","m","p","t","y"," ","r","e","s","p","o","n","s","e"," ","f","r","o","m"," ","H","u","g","g","i","n","g"," ","F","a","c","e"," ","A","P","I",":"," ">> \o PyStrOf(result))
    ELSE IF Contains(content, AssistantHeader)
    THEN ReplyText(Strip(AfterLast(content, AssistantHeader)))
    ELSE ReplyText(content)

\* holder.get("generated_text", "").strip()
Stripped(result, generated_text) ==
    IF generated_text.t # "str"
    THEN HFRaise("AttributeError",
                 Concat(<<<<"'">>, TypeNameChars(generated_text.t),
                          <<"'"," ","o","b","j","e","c","t"," ","h","a","s"," ","n","o"," ","a","t","t","r","i","b","u","t","e"," ","'","s","t","r","i","p","'">>>>))
    ELSE Content(result, Strip(generated_text.v))

GeneratedOf(result, holder) ==
    IF holder.t # "dict"
    THEN HFRaise("AttributeError", AttributeErrorStr(TypeNameChars(holder.t)))
    ELSE Stripped(result, DictGet(holder, <<"g","e","n","e","r","a","t","e","d","_","t","e","x","t">>, PyStr(<<>>)))

UnexpectedFormat(result) ==
    HFRaise("Exception", <<"U","n","e","x","p","e","c","t","e","d"," ","r","e","s","p","o","n","s","e"," ","f","o","r","m","a","t",":"," ">> \o PyStrOf(result))

\* list(result.values())[0]
FirstValue(d) == d.v[KeySeq(DOMAIN d.v)[1]]

Extracted(response, result) ==
    IF ~result.ok
    THEN HFRaise("Exception",
                 <<"I","n","v","a","l","i","d"," ","J","S","O","N"," ","r","e","s","p","o","n","s","e"," ","f","r","o","m"," ","H","u","g","g","i","n","g"," ","F","a","c","e"," ","A","P","I",":"," ">>
                    \o Slice(response.text, 0, 200))
    ELSE IF result.val.t = "list" /\ Len(result.val.v) > 0
    THEN GeneratedOf(result.val, result.val.v[1])
    ELSE IF result.val.t = "dict"
    THEN IF <<"g","e","n","e","r","a","t","e","d","_","t","e","x","t">> \in DOMAIN result.val.v
         THEN GeneratedOf(result.val, result.val)
         ELSE IF DOMAIN result.val.v # {} /\ FirstValue(result.val).t = "dict"
         THEN GeneratedOf(result.val, FirstValue(result.val))
         ELSE UnexpectedFormat(result.val)
    ELSE UnexpectedFormat(result.val)

\* _extract_content(response): the content returned, or what is raised
_extract_content(response) == Extracted(response, json_loads(response.text))

\* analyze_code lines 42-44: what the adapter ends with for its last response
Validated(response, v) ==
    IF v.kind = "raise" THEN v ELSE _extract_content(response)

hf_finish(self, response) ==
    Validated(response, _validate_response(self, response))

\* A variant of the adapter that switches to a simpler model after a 410.
self_after_call_simpler_model(self, response) ==
    IF response.status_code = 410
    THEN [self EXCEPT !.model = <<"g","p","t","2">> ]
    ELSE self

\* The adapter object after analyze_code ended with response: no statement
\* of analyze_code and of the methods it calls assigns an attribute of self.
self_after_call(self, response) == self

(***************************************************************************)
(* GroqProvider, OpenAIProvider and GeminiProvider: analyze_code from the  *)
(* answer of the one backend call each of them makes.                      *)
(***************************************************************************)
Got(v) == [ok |-> TRUE, val |-> v]
Failed(cls, msg) == [ok |-> FALSE, exc |-> cls, str |-> msg]

NotSubscriptable(v) ==
    Failed("TypeError",
           Concat(<<<<"'">>, TypeNameChars(v.t), <<"'"," ","o","b","j","e","c","t"," ","i","s"," ","n","o","t"," ","s","u","b","s","c","r","i","p","t","a","b","l","e">>>>))

\* v[key], key a str
GetItem(v, key) ==
    IF v.t = "dict"
    THEN IF key \in DOMAIN v.v THEN Got(v.v[key])
         ELSE Failed("KeyError", Concat(<<<<"'">>, key, <<"'">>>>))
    ELSE IF v.t = "list"
    THEN Failed("TypeError", <<"l","i","s","t"," ","i","n","d","i","c","e","s"," ","m","u","s","t"," ","b","e"," ","i","n","t","e","g","e","r","s"," ","o","r"," ","s","l","i","c","e","s",","," ","n","o","t"," ","s","t","r">>)
    ELSE IF v.t = "str"
    THEN Failed("TypeError", <<"s","t","r","i","n","g"," ","i","n","d","i","c","e","s"," ","m","u","s","t"," ","b","e"," ","i","n","t","e","g","e","r","s",","," ","n","o","t"," ","'","s","t","r","'">>)
    ELSE NotSubscriptable(v)

\* v[0]
GetFirst(v) ==
    IF v.t = "list"
    THEN IF Len(v.v) > 0 THEN Got(v.v[1])
         ELSE Failed("IndexError", <<"l","i","s","t"," ","i","n","d","e","x"," ","o","u","t"," ","o","f"," ","r","a","n","g","e">>)
    ELSE IF v.t = "str"
    THEN IF Len(v.v) > 0 THEN Got(PyStr(<<v.v[1]>>))
         ELSE Failed("IndexError", <<"s","t","r","i","n","g"," ","i","n","d","e","x"," ","o","u","t"," ","o","f"," ","r","a","n","g","e">>)
    ELSE IF v.t = "dict" THEN Failed("KeyError", <<"0">>)
    ELSE NotSubscriptable(v)

\* content.strip()
StripOf(content) ==
    IF content.t = "str" THEN ReplyText(Strip(content.v))
    ELSE HFRaise("AttributeError",
                 Concat(<<<<"'">>, TypeNameChars(content.t),
                          <<"'"," ","o","b","j","e","c","t"," ","h","a","s"," ","n","o"," ","a","t","t","r","i","b","u","t","e"," ","'","s","t","r","i","p","'">>>>))

GroqContent(content) ==
    IF ~content.ok THEN HFRaise(content.exc, content.str) ELSE StripOf(content.val)

GroqMessage(message) ==
    IF ~message.ok THEN HFRaise(message.exc, message.str)
    ELSE GroqContent(GetItem(message.val, <<"c","o","n","t","e","n","t">>))

GroqFirst(first) ==
    IF ~first.ok THEN HFRaise(first.exc, first.str)
    ELSE GroqMessage(GetItem(first.val, <<"m","e","s","s","a","g","e">>))

GroqChoices(choices) ==
    IF ~choices.ok THEN HFRaise(choices.exc, choices.str)
    ELSE GroqFirst(GetFirst(choices.val))

\* result = response.json(); result["choices"][0]["message"]["content"].strip()
GroqResult(response, result) ==
    IF ~result.ok
    THEN IF result.kind = "RecursionError"
         THEN HFRaise("RecursionError", RecursionErrorStr(result.msg))
         ELSE HFRaise(result.kind, JSONDecodeErrorStr(response.text, result))
    ELSE GroqChoices(GetItem(result.val, <<"c","h","o","i","c","e","s">>))

\* groq_provider.py lines 53-57, response what requests.post returned
groq_finish(response) ==
    IF response.status_code # 200
    THEN HFRaise("Exception", <<"G","r","o","q"," ","A","P","I"," ","e","r","r","o","r",":"," ">> \o response.text)
    ELSE GroqResult(response, json_loads(response.text))

\* openai_provider.py lines 31-42, answer what openai.ChatCompletion.create
\* ended with: an exception of the library, or a completion whose first
\* choice holds content (a str, or None).
openai_finish(answer) ==
    IF answer.kind = "raise" THEN HFRaise("OpenAIError", answer.text)
    ELSE StripOf(answer.content)

\* gemini_provider.py lines 77-86, answer what self.model.generate_content
\* ended with: an exception of the library, or a response whose text is a
\* str.  Everything raised inside the try is raised again as one Exception.
gemini_finish(answer) ==
    IF answer.kind = "raise"
    THEN HFRaise("Exception", <<"G","e","m","i","n","i"," ","A","P","I"," ","e","r","r","o","r",":"," ">> \o answer.text)
    ELSE ReplyText(Strip(answer.content.v))

(***************************************************************************)
(* CodeReviewService.analyze_code                                          *)
(***************************************************************************)
\* A variant whose degraded result names the provider.
analyze_code_returned_named(provider, n) ==
    IF n.raised = "none" THEN Return(StructuredResult(n.value))
    ELSE IF n.raised = "JSONDecodeError"
    THEN Return(DegradedResult(<<ProviderChars(provider), n.str>>))
    ELSE Raise(_handle_exception(provider, n.str))

\* ... after provider.analyze_code returned: n is what the rest of the try
\* block does.
analyze_code_returned(provider, n) ==
    IF n.raised = "none" THEN Return(StructuredResult(n.value))
    ELSE IF n.raised = "JSONDecodeError" THEN Return(DegradedResult(n.str))
    ELSE Raise(_handle_exception(provider, n.str))

\* A variant whose handler returns for a message that matches no rule.
analyze_code_handler_returns(provider, reply) ==
    IF reply.kind = "raise"
    THEN IF _handle_exception(provider, reply.text).status_code = 500
         THEN Return(PyNone)
         ELSE Raise(_handle_exception(provider, reply.text))
    ELSE analyze_code_returned(provider, TryNormalize(reply.text))

analyze_code(provider, reply) ==
    IF reply.kind = "raise"
    THEN Raise(_handle_exception(provider, reply.text))
    ELSE analyze_code_returned(provider, TryNormalize(reply.text))

(***************************************************************************)
(* main.py: analyze_code_with_ai                                           *)
(***************************************************************************)
UnknownProviderStr(provider) ==
    <<"U","n","k","n","o","w","n"," ","A","I"," ","p","r","o","v","i","d","e","r",":"," ">> \o ProviderChars(provider)

\* ... after the provider branch produced content (lines 381-409)
main_returned(provider, n) ==
    IF n.raised = "none" THEN Return(StructuredResult(n.value))
    ELSE IF n.raised = "JSONDecodeError" THEN Return(DegradedResult(n.str))
    ELSE Raise(main_except_handler(provider, n.str))

analyze_code_with_ai(provider, reply) ==
    IF provider \notin KnownProviders
    THEN Raise(main_except_handler(provider, UnknownProviderStr(provider)))
    ELSE IF reply.kind = "raise"
    THEN Raise(main_except_handler(provider, reply.text))
    ELSE main_returned(provider, TryNormalize(reply.text))

(***************************************************************************)
(* main.py: the /review_code endpoint                                      *)
(***************************************************************************)
\* len(request.code) > 10000
MAX_CODE_LENGTH == 10000

\* A variant whose length test is len(request.code) >= 10000.
review_code_validate_ge(code) ==
    IF code.len < 1
    THEN [status_code |-> 422, detail |-> "RequestValidationError"]
    ELSE IF code.len = 0 \/ code.blank
    THEN [status_code |-> 400,
          detail |-> "Code cannot be empty. Please provide a code snippet to review."]
    ELSE IF code.len >= 10000
    THEN [status_code |-> 400,
          detail |-> "Code snippet is too long. Maximum length is 10,000 characters."]
    ELSE [status_code |-> 200, detail |-> "accepted"]

\* A request body: the handler reads of code only its length and whether
\* code.strip() is empty, so code is the pair of the two.
\* CodeReviewRequest (Field(..., min_length=1)) is validated by the
\* framework before review_code runs: an empty code is answered 422.
review_code_validate(code) ==
    IF code.len < 1
    THEN [status_code |-> 422, detail |-> "RequestValidationError"]
    ELSE IF code.len = 0 \/ code.blank
    THEN [status_code |-> 400,
          detail |-> "Code cannot be empty. Please provide a code snippet to review."]
    ELSE IF code.len > MAX_CODE_LENGTH
    THEN [status_code |-> 400,
          detail |-> "Code snippet is too long. Maximum length is 10,000 characters."]
    ELSE [status_code |-> 200, detail |-> "accepted"]

\* CodeReviewResponse(**analysis): "ok", "error" (ValidationError) or
\* "coerced" for a field that pydantic 1 converts with str() and pydantic 2
\* refuses (a number for a str field).
StrFieldCheck(v, optional) ==
    IF v.t = "str" \/ (optional /\ v.t = "NoneType") THEN "ok"
    ELSE IF v.t \in {"int", "bool"} THEN "coerced"
    ELSE "error"

ListFieldCheck(v) == IF v.t = "list" THEN "ok" ELSE "error"

ResponseChecks(analysis) ==
    {StrFieldCheck(analysis.summary, FALSE), ListFieldCheck(analysis.issues),
     ListFieldCheck(analysis.suggestions),
     StrFieldCheck(analysis.improved_code, TRUE)}

CoerceStr(v) == IF v.t \in {"int", "bool"} THEN PyStr(<<"str", v.v>>) ELSE v

ValidationFailure ==
    [kind |-> "raise", status_code |-> 500,
     value |-> <<"An unexpected error occurred: ", "ValidationError">>]

\* review_code after validation, lines 522-536: the possible endings for
\* what analyze_code_with_ai ended with.
ResponseModel(analysis, checks) ==
    IF "error" \in checks THEN {ValidationFailure}
    ELSE IF "coerced" \in checks
    THEN {Return([analysis.value EXCEPT
                    !.summary = CoerceStr(@), !.improved_code = CoerceStr(@)]),
          ValidationFailure}
    ELSE {analysis}

review_code_finish(analysis) ==
    IF analysis.kind = "raise" THEN {analysis}
    ELSE ResponseModel(analysis, ResponseChecks(analysis.value))

\* main.py lines 55-92: the module raises ValueError while it is imported
\* when the credential of the selected provider is missing.
main_import_ok(e) ==
    /\ ~(e.provider = "openai" /\ ~e.keySet)
    /\ ~(e.provider = "groq" /\ ~e.keySet)
    /\ ~(e.provider = "gemini" /\ (~e.geminiAvailable \/ ~e.keySet))

\* CodeReviewService._get_provider: provider_map.get(AI_PROVIDER)
_get_provider_ok(e) == e.provider \in KnownProviders

(***************************************************************************)
(* Inputs.                                                                 *)
(***************************************************************************)
Providers == KnownProviders \cup {"azure"}

\* AI_PROVIDER, whether the selected provider's credential is set, and
\* GEMINI_AVAILABLE (read only when the provider is gemini).
Configs ==
    {e \in [provider : Providers, keySet : BOOLEAN, geminiAvailable : BOOLEAN] :
        ~e.geminiAvailable => e.provider = "gemini"}

CodeLens == {0, 1, MAX_CODE_LENGTH, MAX_CODE_LENGTH + 1}

Codes == {c \in [len : CodeLens, blank : BOOLEAN] : c.len = 0 => c.blank}

Languages == {"null", "python"}

Requests == [code : Codes, language : Languages]

\* What a caller of the service passes on: the validated requests.
ValidRequests ==
    {r \in Requests : 1 <= r.code.len /\ r.code.len <= MAX_CODE_LENGTH
                        /\ ~r.code.blank}

\* Failure messages: 1..MaxFrags fragments, in any order.
MsgFrags ==
    {<<"R","a","t","e"," ","l","i","m","i","t"," ","e","x","c","e","e","d","e","d">>, <<","," ","t","o","o"," ","m","a","n","y"," ","r","e","q","u","e","s","t","s">>, <<"R","a","t","e"," ","l","i","m","i","t">>,
     <<"q","u","o","t","a">>, <<"B","i","l","l","i","n","g">>, <<"A","u","t","h","e","n","t","i","c","a","t","i","o","n">>, <<"I","n","v","a","l","i","d"," ">>, <<"k","e","y">>,
     <<"U","n","a","u","t","h","o","r","i","z","e","d">>, <<"A","P","I">>, <<"a">>, <<"p","i">>, <<"t","i","m","e","d"," ","o","u","t">>}

Messages ==
    {Concat(fs) : fs \in UNION {[1..n -> MsgFrags] : n \in 1..MaxFrags}}

\* Reply bodies: 0..MaxToks JSON tokens in any order, ...
TextToks ==
    {<<"{">>, <<"}">>, <<"{","}">>, <<"[">>, <<"]">>, <<"\"","k","\"">>, <<":">>, <<"n","u","l","l">>,
     <<"1">>, <<" ">>, <<"s">>}

TokenBodies ==
    {Concat(ts) : ts \in UNION {[1..n -> TextToks] : n \in 0..MaxToks}}

\* ... the JSON objects that give each of the four fields, and one more
\* key, one of a few values or leave it out (<<>>), ...
RECURSIVE JoinComma(_)
JoinComma(ss) ==
    IF ss = <<>> THEN <<>>
    ELSE IF Head(ss) = <<>> THEN JoinComma(Tail(ss))
    ELSE IF JoinComma(Tail(ss)) = <<>> THEN Head(ss)
    ELSE Head(ss) \o <<",">> \o JoinComma(Tail(ss))

Member(key, valueText) ==
    IF valueText = <<>> THEN <<>>
    ELSE Concat(<<<<"\"">>, key, <<"\"",":">>, valueText>>)

ObjectText(vs) ==
    Concat(<<<<"{">>,
             JoinComma(<<Member(k_summary, vs[1]), Member(k_issues, vs[2]),
                         Member(k_suggestions, vs[3]),
                         Member(k_improved_code, vs[4]),
                         Member(<<"n","o","t","e">>, vs[5])>>),
             <<"}">>>>)

SummaryTexts == {<<>>, <<"n","u","l","l">>, <<"\"","\"">>, <<"\"","o","k","\"">>, <<"1">>}
IssuesTexts == {<<>>, <<"n","u","l","l">>, <<"[","{","\"","t","y","p","e","\"",":","\"","b","u","g","\"","}","]">>}
SuggestionsTexts == {<<>>, <<"n","u","l","l">>, <<"[","\"","a","\"","]">>}
ImprovedCodeTexts == {<<>>, <<"\"","o","k","\"">>}
NoteTexts == {<<>>, <<"1">>}

ObjectBodies ==
    {ObjectText(vs) : vs \in SummaryTexts \X IssuesTexts \X SuggestionsTexts
                                \X ImprovedCodeTexts \X NoteTexts}

\* ... and an array nested deeper than the scanner can recurse.
DeepArray == [i \in 1..(RecursionLimit + 1) |-> "["]

Bodies == TokenBodies \cup ObjectBodies \cup {DeepArray}

\* The body as it is, or inside a markdown fence: with or without the json
\* tag, with or without newlines between the fence and the body.
Fence == <<Backtick, Backtick, Backtick>>
FenceStyles == {"none", "fence", "fence-json", "fence-nl", "fence-json-nl"}

Wrap(style, body) ==
    CASE style = "fence" -> Concat(<<Fence, body, Fence>>)
      [] style = "fence-json" -> Concat(<<Fence, <<"j","s","o","n">>, body, Fence>>)
      [] style = "fence-nl" -> Concat(<<Fence, <<"\n">>, body, <<"\n">>, Fence>>)
      [] style = "fence-json-nl" ->
           Concat(<<Fence, <<"j","s","o","n","\n">>, body, <<"\n">>, Fence>>)
      [] OTHER -> body

\* Every adapter returns its text through str.strip().
RawTexts == {Strip(Wrap(st, b)) : st \in FenceStyles, b \in Bodies}

(***************************************************************************)
(* The state machine.                                                      *)
(***************************************************************************)
VARIABLES
    env,            \* the configuration read from the environment at start
    program,        \* "main": main.py's app; "service": CodeReviewService
    status,         \* "starting", "serving" or "failed" (start-up raised)
    pc,             \* the request in hand: "idle", "analyzing" or "done"
    request,        \* its body
    reply,          \* what the adapter call ended with
    calls,          \* the adapter calls made for it
    outcome,        \* what the request ended with
    configErrorAt   \* where "Unknown AI provider" was raised, if it was

\* One call of HuggingFaceProvider.analyze_code.
VARIABLES
    hf_pc,          \* "idle", "probing", "request", "waiting", "retry", "done"
    hf_probe,       \* the index in api_urls of the endpoint probed next
    api_url,        \* the index in api_urls of the endpoint chosen, 0 before
    hf_log,         \* the requests sent and the pauses slept, in order
    hf_response,    \* hf_response
    hf_result       \* what the call ended with

pipelineVars ==
    <<env, program, status, pc, request, reply, calls, outcome, configErrorAt>>
hfVars == <<hf_pc, hf_probe, api_url, hf_log, hf_response, hf_result>>
\* One run of GeminiProvider._initialize_model.
VARIABLES gm_pc, model_name, names_to_try, gm_tried, last_error, gm_model,
          gm_listed, gm_error
gmVars == <<gm_pc, model_name, names_to_try, gm_tried, last_error, gm_model,
            gm_listed, gm_error>>
\* Requests in flight at the same time: the adapter object they share, the
\* request running on the event loop, and each request's own locals.
VARIABLES adapter, loop, reqs
concVars == <<adapter, loop, reqs>>
\* Calls of the normalizer on one raw text.
VARIABLES norm_text, norm_calls
normVars == <<norm_text, norm_calls>>

\* One call of the Groq, OpenAI or Gemini adapter: where it is, the backend
\* generation requests it has made, and what it ended with.
VARIABLES chat_pc, chat_log, chat_result
chatVars == <<chat_pc, chat_log, chat_result>>

adapterVars == <<hfVars, gmVars, concVars, normVars, chatVars>>
notHF == <<pipelineVars, gmVars, concVars, normVars, chatVars>>
notGM == <<pipelineVars, hfVars, concVars, normVars, chatVars>>
notConc == <<pipelineVars, hfVars, gmVars, normVars, chatVars>>
notNorm == <<pipelineVars, hfVars, gmVars, concVars, chatVars>>
notChat == <<pipelineVars, hfVars, gmVars, concVars, normVars>>

vars == <<pipelineVars, adapterVars>>

NoRequest == [code |-> [len |-> 0, blank |-> TRUE], language |-> "null"]
NoReply == [kind |-> "none", text |-> <<>>]
NoOutcome == [kind |-> "none", status_code |-> 0, value |-> <<>>]

NoResponse == [status_code |-> 0, json_ctype |-> FALSE, text |-> <<>>]

HFIdle ==
    /\ hf_pc = "idle"
    /\ hf_probe = 1
    /\ api_url = 0
    /\ hf_log = <<>>
    /\ hf_response = NoResponse
    /\ hf_result = NoReply

\* No adapter call is being followed step by step.
NoListing == [ok |-> FALSE, names |-> <<>>]
GMIdle ==
    /\ gm_pc = "idle" /\ model_name = <<>> /\ names_to_try = <<>>
    /\ gm_tried = <<>> /\ last_error = <<>> /\ gm_model = <<>>
    /\ gm_listed = NoListing /\ gm_error = <<>>
MaxRequests == 2
ReqIds == 1..MaxRequests
NoResult == [kind |-> "none", text |-> <<>>]
IdleReq ==
    [pc |-> "idle", request |-> [code |-> [len |-> 0, blank |-> TRUE], language |-> "null"],
     api_url |-> 0, replies |-> <<>>, result |-> NoResult,
     outcome |-> [kind |-> "none", status_code |-> 0, value |-> <<>>]]
\* HuggingFaceProvider.__init__ with HUGGINGFACE_API_KEY set
HFAdapter == [model |-> HUGGINGFACE_MODEL, authorization |-> TRUE]
ConcIdle == adapter = HFAdapter /\ loop = 0 /\ reqs = [i \in ReqIds |-> IdleReq]
NormIdle == norm_text = <<>> /\ norm_calls = <<>>
ChatIdle == chat_pc = "idle" /\ chat_log = <<>> /\ chat_result = NoReply
AdaptersIdle == HFIdle /\ GMIdle /\ ConcIdle /\ NormIdle /\ ChatIdle

Init ==
    /\ env \in Configs
    /\ program \in {"main", "service"}
    \* CodeReviewService reads of the configuration only AI_PROVIDER.
    /\ program = "service" => env.keySet /\ env.geminiAvailable
    /\ status = "starting"
    /\ pc = "idle"
    /\ request = NoRequest
    /\ reply = NoReply
    /\ calls = 0
    /\ outcome = NoOutcome
    /\ configErrorAt = "none"
    /\ AdaptersIdle

\* main.py is imported (uvicorn main:app).
MainImport ==
    /\ program = "main" /\ status = "starting"
    /\ status' = IF main_import_ok(env) THEN "serving" ELSE "failed"
    /\ UNCHANGED <<env, program, pc, request, reply, calls, outcome, configErrorAt>>
    /\ UNCHANGED adapterVars

\* CodeReviewService(): __init__ calls _get_provider.
ServiceInit ==
    /\ program = "service" /\ status = "starting"
    /\ status' = IF _get_provider_ok(env) THEN "serving" ELSE "failed"
    /\ configErrorAt' = IF _get_provider_ok(env) THEN configErrorAt ELSE "construction"
    /\ UNCHANGED <<env, program, pc, request, reply, calls, outcome>>
    /\ UNCHANGED adapterVars

Received(r, v) ==
    /\ request' = r
    /\ IF v.status_code = 200
       THEN pc' = "analyzing" /\ outcome' = outcome
       ELSE /\ pc' = "done"
            /\ outcome' = [kind |-> "raise", status_code |-> v.status_code,
                           value |-> v.detail]

\* POST /review_code arrives: the validation of lines 95-98 and 508-520.
ReviewCodeReceive ==
    /\ program = "main" /\ status = "serving" /\ pc = "idle"
    /\ \E r \in Requests : Received(r, review_code_validate(r.code))
    /\ UNCHANGED <<env, program, status, reply, calls, configErrorAt>>
    /\ UNCHANGED adapterVars

\* service.analyze_code(code, language) is called.
ServiceAnalyzeCall ==
    /\ program = "service" /\ status = "serving" /\ pc = "idle"
    /\ \E r \in ValidRequests : request' = r
    /\ pc' = "analyzing"
    /\ UNCHANGED <<env, program, status, reply, calls, outcome, configErrorAt>>
    /\ UNCHANGED adapterVars

\* The rest of the handler once the adapter call has ended with r.
Finish(r) ==
    /\ reply' = r
    /\ calls' = calls + 1
    /\ pc' = "done"
    /\ IF program = "main"
       THEN outcome' \in review_code_finish(analyze_code_with_ai(env.provider, r))
       ELSE outcome' = analyze_code(env.provider, r)
    /\ UNCHANGED <<env, program, status, request, configErrorAt>>
    /\ UNCHANGED adapterVars

\* The adapter returns raw text.
AdapterReturns ==
    /\ pc = "analyzing" /\ env.provider \in KnownProviders
    /\ \E text \in RawTexts : Finish(ReplyText(text))

\* The adapter raises.
AdapterRaises ==
    /\ pc = "analyzing" /\ env.provider \in KnownProviders
    /\ \E msg \in Messages : Finish(ReplyRaise(msg))

\* main.py line 379: no branch of analyze_code_with_ai matches AI_PROVIDER.
UnknownProvider ==
    /\ program = "main" /\ pc = "analyzing" /\ env.provider \notin KnownProviders
    /\ outcome' \in review_code_finish(analyze_code_with_ai(env.provider, NoReply))
    /\ configErrorAt' = IF configErrorAt = "none" THEN "request" ELSE configErrorAt
    /\ pc' = "done"
    /\ UNCHANGED <<env, program, status, request, reply, calls>>
    /\ UNCHANGED adapterVars

\* The response is sent; the next request can come.
NextRequest ==
    /\ pc = "done"
    /\ pc' = "idle"
    /\ request' = NoRequest
    /\ reply' = NoReply
    /\ calls' = 0
    /\ outcome' = NoOutcome
    /\ UNCHANGED <<env, program, status, configErrorAt>>
    /\ UNCHANGED adapterVars

Next ==
    \/ MainImport
    \/ ServiceInit
    \/ ReviewCodeReceive
    \/ ServiceAnalyzeCall
    \/ AdapterReturns
    \/ AdapterRaises
    \/ UnknownProvider
    \/ NextRequest

Spec == Init /\ [][Next]_vars

(***************************************************************************)
(* One call of HuggingFaceProvider.analyze_code, request by request.       *)
(***************************************************************************)
\* What a probe is answered with: a status, or 0 when requests.post raises.
ProbeStatuses == {0, 200, 404, 410, 503}

\* Bodies of a 503 reply: the loading notice with and without
\* estimated_time, other JSON values, and text that is not JSON.
WaitTexts ==
    {<<>>, <<"<","h","t","m","l",">">>, <<"[","]">>, <<"{","}">>, <<"{","\"","e","r","r","o","r","\"",":","\"","l","o","a","d","i","n","g","\"","}">>,
     <<"{","\"","e","r","r","o","r","\"",":","\"","l","o","a","d","i","n","g","\"",",","\"","e","s","t","i","m","a","t","e","d","_","t","i","m","e","\"",":","2","0","}">>,
     <<"{","\"","e","s","t","i","m","a","t","e","d","_","t","i","m","e","\"",":","0","}">>, <<"{","\"","e","s","t","i","m","a","t","e","d","_","t","i","m","e","\"",":","2","5","}">>,
     <<"{","\"","e","s","t","i","m","a","t","e","d","_","t","i","m","e","\"",":","2","6","}">>, <<"{","\"","e","s","t","i","m","a","t","e","d","_","t","i","m","e","\"",":","1","0","0","}">>,
     <<"{","\"","e","s","t","i","m","a","t","e","d","_","t","i","m","e","\"",":","-","1","0","}">>, <<"{","\"","e","s","t","i","m","a","t","e","d","_","t","i","m","e","\"",":","n","u","l","l","}">>}

\* Bodies of the other replies.
ReplyTexts ==
    {<<>>, <<"[","]">>, <<"{","\"","e","r","r","o","r","\"",":","\"","q","u","o","t","a","\"","}">>,
     <<"[","{","\"","g","e","n","e","r","a","t","e","d","_","t","e","x","t","\"",":","\"","{","}","\"","}","]">>, <<"[","{","\"","g","e","n","e","r","a","t","e","d","_","t","e","x","t","\"",":","\""," ","\"","}","]">>,
     <<"{","\"","g","e","n","e","r","a","t","e","d","_","t","e","x","t","\"",":","\"","{","}","\"","}">>, <<"{","\"","a","\"",":","{","\"","g","e","n","e","r","a","t","e","d","_","t","e","x","t","\"",":","\"","x","\"","}","}">>,
     <<"[","{","\"","g","e","n","e","r","a","t","e","d","_","t","e","x","t","\"",":","\"","<","|","s","t","a","r","t","_","h","e","a","d","e","r","_","i","d","|",">","a","s","s","i","s","t","a","n","t","<","|","e","n","d","_","h","e","a","d","e","r","_","i","d","|",">","\"","}","]">>}

ReplyStatuses == {200, 401, 403, 404, 410, 429, 500}

HFResponses ==
    [status_code : {503}, json_ctype : BOOLEAN, text : WaitTexts]
        \cup [status_code : ReplyStatuses, json_ctype : BOOLEAN, text : ReplyTexts]

\* str() of the RequestException of a request that got no response
ConnectionErrors == {<<"t","i","m","e","d"," ","o","u","t">>}

\* What the call did, in order: n is a status code (0: no response) or
\* the seconds of a pause.
ProbeEvent(url, code) == [ev |-> "probe", url |-> url, n |-> code]
PostEvent(url, code) == [ev |-> "post", url |-> url, n |-> code]
SleepEvent(secs) == [ev |-> "sleep", url |-> 0, n |-> secs]

HFStart ==
    /\ env = [provider |-> "huggingface", keySet |-> TRUE, geminiAvailable |-> TRUE]
    /\ program = "service"
    /\ status = "serving"
    /\ pc = "analyzing"
    /\ request \in ValidRequests
    /\ reply = NoReply
    /\ calls = 0
    /\ outcome = NoOutcome
    /\ configErrorAt = "none"

InitHF == HFStart /\ AdaptersIdle

\* analyze_code is entered (lines 31-35).
HFCall ==
    /\ hf_pc = "idle"
    /\ hf_pc' = "probing"
    /\ UNCHANGED <<hf_probe, api_url, hf_log, hf_response, hf_result>>
    /\ UNCHANGED notHF

\* A variant of the loop that falls back to the last candidate.
HFProbe_falls_back_to_last ==
    /\ hf_pc = "probing"
    /\ \E st \in ProbeStatuses :
         /\ hf_log' = Append(hf_log, ProbeEvent(hf_probe, st))
         /\ IF st \notin {0, 410, 404}
            THEN api_url' = hf_probe /\ hf_pc' = "request" /\ hf_probe' = hf_probe
            ELSE IF hf_probe < 2
            THEN api_url' = api_url /\ hf_pc' = hf_pc /\ hf_probe' = hf_probe + 1
            ELSE api_url' = 2 /\ hf_pc' = "request" /\ hf_probe' = hf_probe
    /\ UNCHANGED <<hf_response, hf_result>>
    /\ UNCHANGED notHF

\* _find_working_endpoint: one turn of the loop over api_urls.
HFProbe ==
    /\ hf_pc = "probing"
    /\ \E st \in ProbeStatuses :
         /\ hf_log' = Append(hf_log, ProbeEvent(hf_probe, st))
         /\ IF st \notin {0, 410, 404}
            THEN api_url' = hf_probe /\ hf_pc' = "request" /\ hf_probe' = hf_probe
            ELSE IF hf_probe < 2
            THEN api_url' = api_url /\ hf_pc' = hf_pc /\ hf_probe' = hf_probe + 1
            ELSE api_url' = 1 /\ hf_pc' = "request" /\ hf_probe' = hf_probe
    /\ UNCHANGED <<hf_response, hf_result>>
    /\ UNCHANGED notHF

\* _make_request raises: requests.post got no response.
HFRequestFails ==
    /\ hf_pc = "request"
    /\ \E e \in ConnectionErrors :
         hf_result' = HFRaise("Exception",
                              <<"F","a","i","l","e","d"," ","t","o"," ","c","o","n","n","e","c","t"," ","t","o"," ","H","u","g","g","i","n","g"," ","F","a","c","e"," ","A","P","I",":"," ">> \o e)
    /\ hf_log' = Append(hf_log, PostEvent(api_url, 0))
    /\ hf_pc' = "done"
    /\ UNCHANGED <<hf_probe, api_url, hf_response>>
    /\ UNCHANGED notHF

\* _make_request returns a response: lines 37-44 up to the pause.
HFRequest ==
    /\ hf_pc = "request"
    /\ \E r \in HFResponses :
         /\ hf_response' = r
         /\ hf_log' = Append(hf_log, PostEvent(api_url, r.status_code))
         /\ IF r.status_code = 503
            THEN hf_pc' = "waiting" /\ hf_result' = hf_result
            ELSE hf_pc' = "done" /\ hf_result' = hf_finish(adapter, r)
    /\ UNCHANGED <<hf_probe, api_url>>
    /\ UNCHANGED notHF

Waited(w) ==
    IF w.kind = "slept"
    THEN /\ hf_log' = Append(hf_log, SleepEvent(w.secs))
         /\ hf_pc' = "retry"
         /\ hf_result' = hf_result
    ELSE /\ hf_log' = hf_log
         /\ hf_pc' = "done"
         /\ hf_result' = w

\* _retry_after_wait, lines 142-148: the pause.
HFWait ==
    /\ hf_pc = "waiting"
    /\ Waited(retry_wait(hf_response))
    /\ UNCHANGED <<hf_probe, api_url, hf_response>>
    /\ UNCHANGED notHF

\* _retry_after_wait, lines 150-165: the retry raises.
HFRetryFails ==
    /\ hf_pc = "retry"
    /\ \E e \in ConnectionErrors :
         hf_result' =
           HFRaise("Exception",
                   <<"F","a","i","l","e","d"," ","t","o"," ","c","o","n","n","e","c","t"," ","t","o"," ","H","u","g","g","i","n","g"," ","F","a","c","e"," ","A","P","I"," ","a","f","t","e","r"," ","r","e","t","r","y",":"," ">> \o e)
    /\ hf_log' = Append(hf_log, PostEvent(api_url, 0))
    /\ hf_pc' = "done"
    /\ UNCHANGED <<hf_probe, api_url, hf_response>>
    /\ UNCHANGED notHF

\* A variant of the retry that probes the endpoints again before it posts.
HFRetry_probes_again ==
    /\ hf_pc = "retry"
    /\ \E r \in HFResponses :
         /\ hf_response' = r
         /\ hf_log' = hf_log \o <<ProbeEvent(1, 200), PostEvent(api_url, r.status_code)>>
         /\ hf_result' = hf_finish(adapter, r)
    /\ hf_pc' = "done"
    /\ UNCHANGED <<hf_probe, api_url>>
    /\ UNCHANGED notHF

\* _retry_after_wait returns the retry's response, then lines 42-44.
HFRetry ==
    /\ hf_pc = "retry"
    /\ \E r \in HFResponses :
         /\ hf_response' = r
         /\ hf_log' = Append(hf_log, PostEvent(api_url, r.status_code))
         /\ hf_result' = hf_finish(adapter, r)
    /\ hf_pc' = "done"
    /\ UNCHANGED <<hf_probe, api_url>>
    /\ UNCHANGED notHF

NextHF ==
    \/ HFCall
    \/ HFProbe
    \/ HFRequestFails
    \/ HFRequest
    \/ HFWait
    \/ HFRetryFails
    \/ HFRetry

SpecHF == InitHF /\ [][NextHF]_vars

(***************************************************************************)
(* GeminiProvider._initialize_model, one genai call at a time.  main.py    *)
(* runs the same statements for every request (lines 326-360).             *)
(***************************************************************************)
FallbackModels ==
    <<<<"m","o","d","e","l","s","/","g","e","m","i","n","i","-","2",".","0","-","f","l","a","s","h">>, <<"m","o","d","e","l","s","/","g","e","m","i","n","i","-","2",".","5","-","f","l","a","s","h">>,
      <<"m","o","d","e","l","s","/","g","e","m","i","n","i","-","2",".","5","-","p","r","o">>, <<"m","o","d","e","l","s","/","g","e","m","i","n","i","-","2",".","0","-","f","l","a","s","h","-","e","x","p">>>>

InList(x, list) == \E i \in DOMAIN list : list[i] = x

\* list.remove(x): the list without its first x
RECURSIVE Remove(_, _)
Remove(list, x) ==
    IF list = <<>> THEN list
    ELSE IF Head(list) = x THEN Tail(list)
    ELSE <<Head(list)>> \o Remove(Tail(list), x)

model_names_to_try_inserted(name) ==
    IF name # <<>> /\ ~InList(name, FallbackModels)
    THEN <<name>> \o FallbackModels
    ELSE IF InList(name, FallbackModels)
    THEN <<name>> \o FallbackModels
    ELSE FallbackModels

\* lines 19-30
model_names_to_try(name) ==
    IF name # <<>> /\ ~InList(name, FallbackModels)
    THEN <<name>> \o FallbackModels
    ELSE IF InList(name, FallbackModels)
    THEN <<name>> \o Remove(FallbackModels, name)
    ELSE FallbackModels

Take(list, n) == SubSeq(list, 1, IF Len(list) < n THEN Len(list) ELSE n)

\* lines 43-52: what the try block raises
AvailableModelsRaise(listing) ==
    IF listing.ok
    THEN [kind |-> "raise",
          text |-> Concat(<<<<"G","e","m","i","n","i"," ","m","o","d","e","l"," ","n","o","t"," ","f","o","u","n","d","."," ","A","v","a","i","l","a","b","l","e"," ","m","o","d","e","l","s"," ","i","n","c","l","u","d","e",":"," ">>,
                            JoinWith(<<","," ">>, Take(listing.names, 3)),
                            <<"."," ","U","p","d","a","t","e"," ","G","E","M","I","N","I","_","M","O","D","E","L"," ","i","n"," ","b","a","c","k","e","n","d","/",".","e","n","v">>>>)]
    ELSE [kind |-> "raise", text |-> <<"l","i","s","t","_","m","o","d","e","l","s"," ","f","a","i","l","e","d">> ]

\* lines 53-57: the handler of that try block
GenericRaise(name, error, raised) ==
    IF raised.kind = "raise"
    THEN Concat(<<<<"G","e","m","i","n","i"," ","m","o","d","e","l"," ","'">>, name, <<"'"," ","n","o","t"," ","f","o","u","n","d","."," ","E","r","r","o","r",":"," ">>, error,
                  <<"."," ","T","r","y",":"," ","m","o","d","e","l","s","/","g","e","m","i","n","i","-","2",".","0","-","f","l","a","s","h">>>>)
    ELSE raised.text

\* lines 42-57
model_not_found(name, error, listing) ==
    GenericRaise(name, error, AvailableModelsRaise(listing))

\* GEMINI_MODEL: unset names, fallback names and another name
GeminiModels ==
    {<<>>, <<"g","e","m","i","n","i","-","p","r","o">>} \cup {FallbackModels[i] : i \in DOMAIN FallbackModels}

\* str(e) of a failed genai.GenerativeModel(model_name)
InitErrors == {<<"4","0","4"," ","n","o","t"," ","f","o","u","n","d">>, <<"a","p","i"," ","k","e","y"," ","n","o","t"," ","v","a","l","i","d">>}

AvailableNames ==
    <<<<"m","o","d","e","l","s","/","a">>, <<"m","o","d","e","l","s","/","b">>, <<"m","o","d","e","l","s","/","c">>, <<"m","o","d","e","l","s","/","d">>>>

\* genai.list_models(): raises, or the names supporting generateContent
Listings ==
    {NoListing} \cup {[ok |-> TRUE, names |-> Take(AvailableNames, n)] : n \in 0..4}

InitGM ==
    /\ HFStart /\ HFIdle /\ ConcIdle /\ NormIdle /\ ChatIdle
    /\ gm_pc = "idle" /\ model_name \in GeminiModels /\ names_to_try = <<>>
    /\ gm_tried = <<>> /\ last_error = <<>> /\ gm_model = <<>>
    /\ gm_listed = NoListing /\ gm_error = <<>>

\* lines 19-32
GMCall ==
    /\ gm_pc = "idle"
    /\ names_to_try' = model_names_to_try(model_name)
    /\ gm_pc' = "trying"
    /\ UNCHANGED <<model_name, gm_tried, last_error, gm_model, gm_listed, gm_error>>
    /\ UNCHANGED notGM

\* lines 34-37: genai.GenerativeModel(model_name) returns
GMInitialized ==
    /\ gm_pc = "trying"
    /\ gm_tried' = Append(gm_tried, names_to_try[Len(gm_tried) + 1])
    /\ gm_model' = names_to_try[Len(gm_tried) + 1]
    /\ gm_pc' = "done"
    /\ UNCHANGED <<model_name, names_to_try, last_error, gm_listed, gm_error>>
    /\ UNCHANGED notGM

\* lines 34-40: genai.GenerativeModel(model_name) raises
GMInitFails ==
    /\ gm_pc = "trying"
    /\ gm_tried' = Append(gm_tried, names_to_try[Len(gm_tried) + 1])
    /\ \E e \in InitErrors : last_error' = e
    /\ gm_pc' = IF Len(gm_tried) + 1 = Len(names_to_try) THEN "listing" ELSE "trying"
    /\ UNCHANGED <<model_name, names_to_try, gm_model, gm_listed, gm_error>>
    /\ UNCHANGED notGM

\* lines 42-57
GMListModels ==
    /\ gm_pc = "listing"
    /\ \E listing \in Listings :
         /\ gm_listed' = listing
         /\ gm_error' = model_not_found(model_name, last_error, listing)
    /\ gm_pc' = "done"
    /\ UNCHANGED <<model_name, names_to_try, gm_tried, last_error, gm_model>>
    /\ UNCHANGED notGM

NextGM ==
    \/ GMCall
    \/ GMInitialized
    \/ GMInitFails
    \/ GMListModels

SpecGM == InitGM /\ [][NextGM]_vars

(***************************************************************************)
(* The normalizer of CodeReviewService.analyze_code (lines 61-90), called  *)
(* on the same raw text by services configured for any provider.          *)
(***************************************************************************)
MaxNormCalls == 2

InitNorm ==
    /\ HFStart /\ HFIdle /\ GMIdle /\ ConcIdle /\ ChatIdle
    /\ norm_text \in RawTexts
    /\ norm_calls = <<>>

\* lines 60-84 after self.provider.analyze_code returned norm_text
NormalizerCall ==
    /\ Len(norm_calls) < MaxNormCalls
    /\ \E p \in KnownProviders :
         norm_calls' = Append(norm_calls,
                              [provider |-> p,
                               outcome |-> analyze_code(p, ReplyText(norm_text))])
    /\ UNCHANGED norm_text
    /\ UNCHANGED notNorm

NextNorm == NormalizerCall

SpecNorm == InitNorm /\ [][NextNorm]_vars

(***************************************************************************)
(* Requests in flight at the same time, the provider being huggingface.    *)
(* main.py: review_code is a coroutine that calls analyze_code_with_ai     *)
(* without awaiting anything (line 524), and uvicorn runs one event loop   *)
(* (run.py): from its first statement to its return or raise a handler     *)
(* is the only code the loop runs.  CodeReviewService: its callers'        *)
(* threads interleave freely.                                              *)
(***************************************************************************)
ConcRequests == {r \in ValidRequests : r.code.len = 1}

ConcResponses ==
    {[status_code |-> 503, json_ctype |-> TRUE, text |-> <<"{","\"","e","s","t","i","m","a","t","e","d","_","t","i","m","e","\"",":","2","0","}">> ],
     [status_code |-> 503, json_ctype |-> TRUE, text |-> <<"{","\"","e","s","t","i","m","a","t","e","d","_","t","i","m","e","\"",":","n","u","l","l","}">> ],
     [status_code |-> 200, json_ctype |-> TRUE, text |-> <<"[","{","\"","g","e","n","e","r","a","t","e","d","_","t","e","x","t","\"",":","\"","{","}","\"","}","]">> ],
     [status_code |-> 404, json_ctype |-> TRUE, text |-> <<"{","\"","e","r","r","o","r","\"",":","\"","q","u","o","t","a","\"","}">> ],
     [status_code |-> 410, json_ctype |-> FALSE, text |-> <<>>]}

InitConc ==
    /\ env = [provider |-> "huggingface", keySet |-> TRUE, geminiAvailable |-> TRUE]
    /\ program \in {"main", "service"}
    /\ status = "serving" /\ pc = "idle" /\ request = NoRequest
    /\ reply = NoReply /\ calls = 0 /\ outcome = NoOutcome
    /\ configErrorAt = "none"
    /\ HFIdle /\ GMIdle /\ NormIdle /\ ConcIdle /\ ChatIdle

\* The handler of request i is what the event loop runs.
Running(i) == program = "main" => loop = i

\* The request has been sent and accepted; its handler has not begun.
Accept(i) ==
    /\ reqs[i].pc = "idle"
    /\ \E r \in ConcRequests :
         reqs' = [reqs EXCEPT ![i].pc = "accepted", ![i].request = r]
    /\ UNCHANGED <<adapter, loop>>
    /\ UNCHANGED notConc

\* The handler begins (main.py line 495; service line 43) and the adapter
\* settles on an endpoint (_find_working_endpoint).
Start(i) ==
    /\ reqs[i].pc = "accepted"
    /\ program = "main" => loop = 0
    /\ loop' = IF program = "main" THEN i ELSE loop
    /\ \E url \in {1, 2} :
         reqs' = [reqs EXCEPT ![i].pc = "request", ![i].api_url = url]
    /\ UNCHANGED adapter
    /\ UNCHANGED notConc

\* The handler of request i ends: the adapter call ended with result after
\* response.
Ended(i, replies, response, result) ==
    /\ \E o \in IF program = "main"
                THEN review_code_finish(analyze_code_with_ai(env.provider, result))
                ELSE {analyze_code(env.provider, result)} :
         reqs' = [reqs EXCEPT ![i].pc = "done", ![i].replies = replies,
                              ![i].result = result, ![i].outcome = o]
    /\ adapter' = self_after_call(adapter, response)
    /\ loop' = 0

\* The real request is answered (lines 37-44).
Request(i) ==
    /\ reqs[i].pc = "request" /\ Running(i)
    /\ \E r \in ConcResponses :
         IF r.status_code = 503
         THEN /\ reqs' = [reqs EXCEPT ![i].pc = "waiting",
                                      ![i].replies = Append(@, r)]
              /\ UNCHANGED <<adapter, loop>>
         ELSE Ended(i, Append(reqs[i].replies, r), r, hf_finish(adapter, r))
    /\ UNCHANGED notConc

Paused(i, response, w) ==
    IF w.kind = "slept"
    THEN /\ reqs' = [reqs EXCEPT ![i].pc = "sleeping"]
         /\ UNCHANGED <<adapter, loop>>
    ELSE Ended(i, reqs[i].replies, response,
               [kind |-> "raise", text |-> w.text])

\* _retry_after_wait up to the call of time.sleep (lines 142-148).
BeginPause(i) ==
    /\ reqs[i].pc = "waiting" /\ Running(i)
    /\ Paused(i, reqs[i].replies[1], retry_wait(reqs[i].replies[1]))
    /\ UNCHANGED notConc

\* time.sleep returns.
EndPause(i) ==
    /\ reqs[i].pc = "sleeping" /\ Running(i)
    /\ reqs' = [reqs EXCEPT ![i].pc = "retry"]
    /\ UNCHANGED <<adapter, loop>>
    /\ UNCHANGED notConc

\* The retry is answered (lines 150-165, then 42-44).
Retry(i) ==
    /\ reqs[i].pc = "retry" /\ Running(i)
    /\ \E r \in ConcResponses :
         Ended(i, Append(reqs[i].replies, r), r, hf_finish(adapter, r))
    /\ UNCHANGED notConc

NextConc ==
    \E i \in ReqIds :
        \/ Accept(i)
        \/ Start(i)
        \/ Request(i)
        \/ BeginPause(i)
        \/ EndPause(i)
        \/ Retry(i)

SpecConc == InitConc /\ [][NextConc]_vars

(***************************************************************************)
(* One call of analyze_code from the adapter's first backend request to    *)
(* what the caller gets, for each of the four adapters.                    *)
(***************************************************************************)
ChatProviders == {"openai", "groq", "gemini"}

GroqStatuses == {200, 401, 429, 500}

GroqTexts ==
    {<<>>, <<"<","h","t","m","l",">">>, <<"{","}">>, <<"[","]">>, <<"{","\"","e","r","r","o","r","\"",":","\"","R","a","t","e"," ","l","i","m","i","t"," ","r","e","a","c","h","e","d","\"","}">>,
     <<"{","\"","c","h","o","i","c","e","s","\"",":","[","]","}">>, <<"{","\"","c","h","o","i","c","e","s","\"",":","[","{","\"","m","e","s","s","a","g","e","\"",":","{","\"","c","o","n","t","e","n","t","\"",":","\"","{","}","\"","}","}","]","}">>,
     <<"{","\"","c","h","o","i","c","e","s","\"",":","[","{","\"","m","e","s","s","a","g","e","\"",":","{","\"","c","o","n","t","e","n","t","\"",":","\""," ","\"","}","}","]","}">>,
     <<"{","\"","c","h","o","i","c","e","s","\"",":","[","{","\"","m","e","s","s","a","g","e","\"",":","{","\"","c","o","n","t","e","n","t","\"",":","n","u","l","l","}","}","]","}">>}

GroqResponses == [status_code : GroqStatuses, text : GroqTexts]

\* str() of what the OpenAI and Gemini libraries raise
LibraryErrors ==
    {<<"R","a","t","e"," ","l","i","m","i","t"," ","r","e","a","c","h","e","d"," ","f","o","r"," ","r","e","q","u","e","s","t","s">>, <<"Y","o","u"," ","e","x","c","e","e","d","e","d"," ","y","o","u","r"," ","c","u","r","r","e","n","t"," ","q","u","o","t","a">>,
     <<"I","n","c","o","r","r","e","c","t"," ","A","P","I"," ","k","e","y"," ","p","r","o","v","i","d","e","d">>, <<"T","h","e"," ","s","e","r","v","e","r"," ","i","s"," ","o","v","e","r","l","o","a","d","e","d">>}

Completion(content) == [kind |-> "content", content |-> content, text |-> <<>>]
LibraryRaise(msg) == [kind |-> "raise", content |-> PyNone, text |-> msg]

OpenAIAnswers ==
    {Completion(c) : c \in {PyStr(<<"{","}">>), PyStr(<<" ","{","\"","s","u","m","m","a","r","y","\"",":","\"","o","k","\"","}"," ">>), PyNone}}
        \cup {LibraryRaise(m) : m \in LibraryErrors}

GeminiAnswers ==
    {Completion(c) : c \in {PyStr(<<"{","}">>), PyStr(<<" ","{","\"","s","u","m","m","a","r","y","\"",":","\"","o","k","\"","}"," ">>)}}
        \cup {LibraryRaise(m) : m \in LibraryErrors}

\* One backend generation request of a chat adapter; n is the status of
\* the reply (0: the library call hides it, or there was no reply).
GenerateEvent(provider, n) == [ev |-> "generate", provider |-> provider, n |-> n]

CallStart ==
    /\ env \in [provider : KnownProviders, keySet : {TRUE}, geminiAvailable : {TRUE}]
    /\ program \in {"main", "service"}
    /\ status = "serving"
    /\ pc = "analyzing"
    /\ request = [code |-> [len |-> 1, blank |-> FALSE], language |-> "python"]
    /\ reply = NoReply
    /\ calls = 0
    /\ outcome = NoOutcome
    /\ configErrorAt = "none"

InitCall == CallStart /\ AdaptersIdle

\* HuggingFaceProvider.analyze_code, step by step
HFSteps == env.provider = "huggingface" /\ NextHF

\* analyze_code of one of the other adapters is entered.
ChatCall ==
    /\ env.provider \in ChatProviders
    /\ chat_pc = "idle"
    /\ chat_pc' = "request"
    /\ UNCHANGED <<chat_log, chat_result>>
    /\ UNCHANGED notChat

\* A variant of the Groq adapter that posts once more after a 429.
GroqRequest_again_after_429 ==
    /\ env.provider = "groq" /\ chat_pc = "request"
    /\ \E response \in GroqResponses :
         /\ chat_log' =
              IF response.status_code = 429
              THEN chat_log \o <<GenerateEvent("groq", 429), GenerateEvent("groq", 429)>>
              ELSE Append(chat_log, GenerateEvent("groq", response.status_code))
         /\ chat_result' = groq_finish(response)
    /\ chat_pc' = "done"
    /\ UNCHANGED notChat

\* groq_provider.py lines 36-57: requests.post returns a response.
GroqRequest ==
    /\ env.provider = "groq" /\ chat_pc = "request"
    /\ \E response \in GroqResponses :
         /\ chat_log' = Append(chat_log, GenerateEvent("groq", response.status_code))
         /\ chat_result' = groq_finish(response)
    /\ chat_pc' = "done"
    /\ UNCHANGED notChat

\* groq_provider.py lines 36-51: requests.post raises.
GroqRequestFails ==
    /\ env.provider = "groq" /\ chat_pc = "request"
    /\ \E e \in ConnectionErrors :
         /\ chat_log' = Append(chat_log, GenerateEvent("groq", 0))
         /\ chat_result' = HFRaise("RequestException", e)
    /\ chat_pc' = "done"
    /\ UNCHANGED notChat

\* openai_provider.py lines 31-42
OpenAIRequest ==
    /\ env.provider = "openai" /\ chat_pc = "request"
    /\ \E answer \in OpenAIAnswers :
         /\ chat_log' = Append(chat_log, GenerateEvent("openai", 0))
         /\ chat_result' = openai_finish(answer)
    /\ chat_pc' = "done"
    /\ UNCHANGED notChat

\* gemini_provider.py lines 77-86
GeminiRequest ==
    /\ env.provider = "gemini" /\ chat_pc = "request"
    /\ \E answer \in GeminiAnswers :
         /\ chat_log' = Append(chat_log, GenerateEvent("gemini", 0))
         /\ chat_result' = gemini_finish(answer)
    /\ chat_pc' = "done"
    /\ UNCHANGED notChat

MsgChars(m) ==
    CASE m = "Expecting value" -> <<"E","x","p","e","c","t","i","n","g"," ","v","a","l","u","e">>
      [] m = "Extra data" -> <<"E","x","t","r","a"," ","d","a","t","a">>
      [] m = "Expecting ',' delimiter" -> <<"E","x","p","e","c","t","i","n","g"," ","'",",","'"," ","d","e","l","i","m","i","t","e","r">>
      [] m = "Expecting ':' delimiter" -> <<"E","x","p","e","c","t","i","n","g"," ","'",":","'"," ","d","e","l","i","m","i","t","e","r">>
      [] m = "Expecting property name enclosed in double quotes" ->
           <<"E","x","p","e","c","t","i","n","g"," ","p","r","o","p","e","r","t","y"," ","n","a","m","e"," ","e","n","c","l","o","s","e","d"," ","i","n"," ","d","o","u","b","l","e"," ","q","u","o","t","e","s">>
      [] m = "Unterminated string starting at" -> <<"U","n","t","e","r","m","i","n","a","t","e","d"," ","s","t","r","i","n","g"," ","s","t","a","r","t","i","n","g"," ","a","t">>
      [] OTHER -> <<"I","n","v","a","l","i","d"," ","c","o","n","t","r","o","l"," ","c","h","a","r","a","c","t","e","r"," ","a","t">>

\* str(e), e a JSONDecodeError: "%s: line %d column %d (char %d)"
JSONDecodeErrorChars(e) ==
    Concat(<<MsgChars(e.msg), <<":"," ","l","i","n","e"," ">>, NatChars(e.lineno), <<" ","c","o","l","u","m","n"," ">>,
             NatChars(e.colno), <<" ","(","c","h","a","r"," ">>, NatChars(e.pos), <<")">>>>)

\* What the adapter's caller sees: the text returned, or str(e)
AsReply(result) ==
    IF result.kind = "text" THEN ReplyText(result.text)
    ELSE IF result.exc = "JSONDecodeError"
    THEN ReplyRaise(JSONDecodeErrorChars(result.text))
    ELSE ReplyRaise(result.text)

AdapterDone ==
    IF env.provider = "huggingface" THEN hf_pc = "done" ELSE chat_pc = "done"

AdapterResult == IF env.provider = "huggingface" THEN hf_result ELSE chat_result

\* The adapter's analyze_code has ended: the rest of the caller's handler.
CallEnds ==
    /\ pc = "analyzing" /\ AdapterDone
    /\ Finish(AsReply(AdapterResult))

NextCall ==
    \/ HFSteps
    \/ ChatCall
    \/ GroqRequest
    \/ GroqRequestFails
    \/ OpenAIRequest
    \/ GeminiRequest
    \/ CallEnds

SpecCall == InitCall /\ [][NextCall]_vars

(***************************************************************************)
(* Properties.                                                             *)
(***************************************************************************)
\* The request in hand has ended after the adapter returned text / raised.
EndedAfterText == pc = "done" /\ reply.kind = "text"
EndedAfterRaise == pc = "done" /\ reply.kind = "raise"

\* What json.loads makes of the reply once the fence is stripped.
ParsedReply == json_loads(_clean_content(reply.text))

\* C1: when the adapter raises "Rate limit exceeded, too many requests", the
\* request ends Rate-Limited, with HTTP status 429.
C1_RateLimitMessageIs429 ==
    (EndedAfterRaise /\ reply.text = <<"R","a","t","e"," ","l","i","m","i","t"," ","e","x","c","e","e","d","e","d",","," ","t","o","o"," ","m","a","n","y"," ","r","e","q","u","e","s","t","s">>)
        => (outcome.kind = "raise" /\ outcome.status_code = 429)

\* C2: for every failure message, CodeReviewService._handle_exception raises
\* the one categorized error of the first rule that matches the lower-cased
\* message: quota/billing/exceeded -> 402; rate limit/too many requests ->
\* 429; authentication, invalid and key, unauthorized -> 401; api -> 502;
\* otherwise 500.
C2_ClassifierPriority ==
    (program = "service" /\ EndedAfterRaise) =>
        LET m == LowerStr(reply.text)
            has(k) == Contains(m, k)
        IN  outcome =
              Raise(IF has(<<"q","u","o","t","a">>) \/ has(<<"b","i","l","l","i","n","g">>) \/ has(<<"e","x","c","e","e","d","e","d">>)
                    THEN create_quota_exception
                    ELSE IF has(<<"r","a","t","e"," ","l","i","m","i","t">>) \/ has(<<"t","o","o"," ","m","a","n","y"," ","r","e","q","u","e","s","t","s">>)
                    THEN create_rate_limit_exception
                    ELSE IF \/ has(<<"a","u","t","h","e","n","t","i","c","a","t","i","o","n">>)
                            \/ (has(<<"i","n","v","a","l","i","d">>) /\ has(<<"k","e","y">>))
                            \/ has(<<"u","n","a","u","t","h","o","r","i","z","e","d">>)
                    THEN create_authentication_exception(env.provider)
                    ELSE IF has(<<"a","p","i">>)
                    THEN create_generic_api_exception(reply.text)
                    ELSE create_unexpected_exception(reply.text))

\* A message with both "quota" and "rate limit" has been classified
\* Quota-Exceeded by the service.
C2_Witness ==
    /\ program = "service" /\ EndedAfterRaise
    /\ Contains(LowerStr(reply.text), <<"q","u","o","t","a">>)
    /\ Contains(LowerStr(reply.text), <<"r","a","t","e"," ","l","i","m","i","t">>)
    /\ outcome.status_code = 402

\* C3: for every raw text whose JSON parsing fails, the request ends with
\* the degraded result (one issue of type error and severity medium, one
\* suggestion, the fixed summary, improved_code null) and never with a
\* raised error.
C3_ParseFailureGivesDegraded ==
    (EndedAfterText /\ ~ParsedReply.ok) =>
        /\ outcome.kind = "return"
        /\ outcome.value.summary =
             PyStr(<<"A","n","a","l","y","s","i","s"," ","c","o","m","p","l","e","t","e","d",","," ","b","u","t"," ","r","e","s","p","o","n","s","e"," ","f","o","r","m","a","t","t","i","n","g"," ","e","n","c","o","u","n","t","e","r","e","d"," ","a","n"," ","i","s","s","u","e",".">>)
        /\ outcome.value.issues.t = "list"
        /\ Len(outcome.value.issues.v) = 1
        /\ outcome.value.issues.v[1].v[ <<"t","y","p","e">> ] = PyStr(<<"e","r","r","o","r">>)
        /\ outcome.value.issues.v[1].v[ <<"s","e","v","e","r","i","t","y">> ] = PyStr(<<"m","e","d","i","u","m">>)
        /\ outcome.value.suggestions.t = "list"
        /\ Len(outcome.value.suggestions.v) = 1
        /\ outcome.value.improved_code = PyNone

\* C4: no request whose adapter call returned text ends in a raised error.
C4_ReturnedTextNeverFails ==
    EndedAfterText => outcome.kind = "return"

\* C5: every returned result has a non-empty summary, and its issues and
\* suggestions are sequences, never null.
C5_ResultShape ==
    (pc = "done" /\ outcome.kind = "return") =>
        /\ outcome.value.summary.t = "str"
        /\ outcome.value.summary.v # <<>>
        /\ outcome.value.issues.t = "list"
        /\ outcome.value.suggestions.t = "list"

\* C6: an unfenced text T and T inside a fence (with or without the json
\* tag, with or without newlines) are normalized to the same outcome.
C6_FencedSameAsUnfenced ==
    (EndedAfterText /\ ~StartsWith(reply.text, Fence)) =>
        \A st \in FenceStyles :
            /\ analyze_code(env.provider, ReplyText(Strip(Wrap(st, reply.text))))
                 = analyze_code(env.provider, reply)
            /\ analyze_code_with_ai(env.provider, ReplyText(Strip(Wrap(st, reply.text))))
                 = analyze_code_with_ai(env.provider, reply)

\* C7: when the raw text parses to a JSON object, the result has exactly the
\* keys summary, issues, suggestions and improved_code; a key of the object
\* is passed through unchanged and a key it lacks gets its default
\* ("Analysis completed.", the empty sequence twice, null).
C7_DefaultsAndPassThrough ==
    (EndedAfterText /\ ParsedReply.ok /\ ParsedReply.val.t = "dict") =>
        LET d == ParsedReply.val.v
            field(k, default) == IF k \in DOMAIN d THEN d[k] ELSE default
            expected ==
                [summary |-> field(<<"s","u","m","m","a","r","y">>, PyStr(<<"A","n","a","l","y","s","i","s"," ","c","o","m","p","l","e","t","e","d",".">>)),
                 issues |-> field(<<"i","s","s","u","e","s">>, PyList(<<>>)),
                 suggestions |-> field(<<"s","u","g","g","e","s","t","i","o","n","s">>, PyList(<<>>)),
                 improved_code |-> field(<<"i","m","p","r","o","v","e","d","_","c","o","d","e">>, PyNone)]
        IN  /\ analyze_code(env.provider, reply) = Return(expected)
            /\ analyze_code_with_ai(env.provider, reply) = Return(expected)
            /\ program = "service" => outcome = Return(expected)
            /\ outcome.kind = "return" =>
                 DOMAIN outcome.value =
                   {"summary", "issues", "suggestions", "improved_code"}

\* The reply was an object with a null summary, no improved_code and a key
\* that is none of the four, and the service returned a result for it.
C7_Witness ==
    /\ program = "service" /\ EndedAfterText
    /\ ParsedReply.ok /\ ParsedReply.val.t = "dict"
    /\ <<"n","o","t","e">> \in DOMAIN ParsedReply.val.v
    /\ <<"i","m","p","r","o","v","e","d","_","c","o","d","e">> \notin DOMAIN ParsedReply.val.v
    /\ <<"s","u","m","m","a","r","y">> \in DOMAIN ParsedReply.val.v
    /\ ParsedReply.val.v[ <<"s","u","m","m","a","r","y">> ] = PyNone
    /\ outcome.kind = "return"
    /\ outcome.value.improved_code = PyNone

\* C8: a request whose code is longer than 10000 characters ends with status
\* 400 and without an adapter call; a request whose code has exactly 10000
\* characters and is not blank is not answered 400.
C8_TooLongRejected ==
    /\ (program = "main" /\ pc # "idle" /\ request.code.len > 10000) =>
          /\ pc = "done"
          /\ outcome.kind = "raise" /\ outcome.status_code = 400
          /\ calls = 0
    /\ (program = "main" /\ pc # "idle" /\ request.code.len = 10000
          /\ ~request.code.blank) =>
          ~(outcome.kind = "raise" /\ outcome.status_code = 400)

\* A non-blank request of 10001 characters was rejected, no adapter called.
C8_Witness ==
    /\ program = "main" /\ pc = "done"
    /\ request.code.len = 10001 /\ ~request.code.blank
    /\ outcome.status_code = 400
    /\ outcome.value = "Code snippet is too long. Maximum length is 10,000 characters."
    /\ calls = 0

\* C9: a request whose code is empty or whitespace-only ends with status 400
\* and without an adapter call.
C9_EmptyRejected400 ==
    (program = "main" /\ pc # "idle"
       /\ (request.code.len = 0 \/ request.code.blank)) =>
        /\ pc = "done"
        /\ outcome.kind = "raise" /\ outcome.status_code = 400
        /\ calls = 0

\* C10: the failure for a provider identifier that is none of the four is
\* raised when the service is constructed; it is never first raised while a
\* request is handled.
C10_UnknownProviderFailsAtConstruction ==
    configErrorAt # "request"

IsPost(e) == e.ev = "post"
IsSleep(e) == e.ev = "sleep"
\* The real requests and the pauses of the call so far, in order.
Posts == SelectSeq(hf_log, IsPost)
Sleeps == SelectSeq(hf_log, IsSleep)
\* The call's events from its first real request on.
RealEvents == SubSeq(hf_log, Len(hf_log) - Len(Posts) - Len(Sleeps) + 1, Len(hf_log))

\* C11: when a call of the HuggingFace adapter has ended, a first real
\* request answered 503 was followed by exactly one pause and then exactly
\* one retry, and the call's failure or result is the one derived from the
\* retry's response; a first real request answered otherwise was the only one
\* and no pause was made.
C11_OnePauseOneRetry ==
    (hf_pc = "done") =>
        IF Posts[1].n = 503
        THEN /\ Len(RealEvents) = 3
             /\ IsPost(RealEvents[1]) /\ IsSleep(RealEvents[2]) /\ IsPost(RealEvents[3])
             /\ \/ RealEvents[3].n = 0 /\ hf_result.kind = "raise"
                \/ RealEvents[3].n # 0 /\ hf_result = hf_finish(adapter, hf_response)
        ELSE Len(Posts) = 1 /\ Len(Sleeps) = 0

\* C12: once the 503 reply of the first real request has been handled, the
\* call has paused for min(estimated_time + 5, 30) seconds, estimated_time
\* being the number the reply's JSON object carries under that key and 15
\* when the reply is not JSON or carries none.
C12_PauseLength ==
    (hf_pc \in {"retry", "done"} /\ Len(Posts) = 1 /\ Posts[1].n = 503) =>
        LET body == json_loads(hf_response.text)
            carried == /\ body.ok
                       /\ body.val.t = "dict"
                       /\ <<"e","s","t","i","m","a","t","e","d","_","t","i","m","e">> \in DOMAIN body.val.v
                       /\ body.val.v[ <<"e","s","t","i","m","a","t","e","d","_","t","i","m","e">> ].t = "int"
            estimated_time ==
                IF carried THEN body.val.v[ <<"e","s","t","i","m","a","t","e","d","_","t","i","m","e">> ].v ELSE 15
        IN /\ Len(Sleeps) = 1
           /\ Sleeps[1].n = IF estimated_time + 5 < 30 THEN estimated_time + 5 ELSE 30
           /\ Sleeps[1].n <= 30

\* C13: when every model name failed to initialize and list_models
\* succeeded, the message raised contains the enumerated list of available
\* models; the message with the configured name and the last error is
\* raised only when list_models itself failed.
C13_EnumeratedListInMessage ==
    (gm_pc = "done" /\ gm_error # <<>>) =>
        IF gm_listed.ok
        THEN /\ Contains(gm_error, <<"A","v","a","i","l","a","b","l","e"," ","m","o","d","e","l","s"," ","i","n","c","l","u","d","e",":"," ">>)
             /\ Contains(gm_error, JoinWith(<<","," ">>, Take(gm_listed.names, 3)))
        ELSE /\ Contains(gm_error, model_name)
             /\ Contains(gm_error, last_error)

\* The names in the order the claim gives: the configured name, then the
\* fallback names other than it.
IsOther(name) == name # model_name
ClaimedOrder ==
    (IF model_name = <<>> THEN <<>> ELSE <<model_name>>)
        \o SelectSeq(FallbackModels, IsOther)

\* C20: the names GenerativeModel was called with are, in order, the
\* configured name and then the fallback names other than it, no name twice;
\* no call follows one that returned; the failure is raised only after every
\* name of the list failed.
C20_InitializationOrder ==
    /\ Len(gm_tried) <= Len(ClaimedOrder)
    /\ gm_tried = SubSeq(ClaimedOrder, 1, Len(gm_tried))
    /\ \A i, j \in DOMAIN gm_tried : gm_tried[i] = gm_tried[j] => i = j
    /\ gm_model # <<>> => gm_pc = "done" /\ gm_model = gm_tried[Len(gm_tried)]
    /\ gm_pc \in {"listing", "done"} /\ gm_model = <<>> => gm_tried = ClaimedOrder
    /\ gm_error # <<>> => gm_model = <<>> /\ gm_tried = ClaimedOrder

\* The configured name is the third fallback: it failed first, then the
\* other three fallbacks failed in their order, and the failure was raised.
C20_Witness ==
    /\ gm_pc = "done"
    /\ model_name = FallbackModels[3]
    /\ gm_tried = <<FallbackModels[3], FallbackModels[1], FallbackModels[2],
                    FallbackModels[4]>>
    /\ gm_error # <<>>

\* C14: a request answered 401 carries the payload of the active provider:
\* its display name in error, the name of its credential variable in
\* message and its key-issuance URL in help, for openai, huggingface, groq
\* and gemini.
C14_AuthenticationPayload ==
    (pc = "done" /\ outcome.kind = "raise" /\ outcome.status_code = 401) =>
        LET row == CASE env.provider = "openai" ->
                          <<"OpenAI", "OPENAI_API_KEY", "https://platform.openai.com/api-keys">>
                     [] env.provider = "huggingface" ->
                          <<"Hugging Face", "HUGGINGFACE_API_KEY",
                            "https://huggingface.co/settings/tokens">>
                     [] env.provider = "groq" ->
                          <<"Groq", "GROQ_API_KEY", "https://console.groq.com/keys">>
                     [] env.provider = "gemini" ->
                          <<"Google Gemini", "GEMINI_API_KEY",
                            "https://makersuite.google.com/app/apikey">>
                     [] OTHER -> <<>>
        IN /\ row # <<>>
           /\ outcome.value.error = <<row[1], " API Authentication Failed">>
           /\ outcome.value.message =
                <<"Invalid API key. Please check your ", row[2],
                  " in the backend/.env file.">>
           /\ outcome.value.help = <<"Get your API key from ", row[3]>>

\* The endpoint of main.py, configured for gemini, answered 401 with
\* Gemini's row after the adapter failed with an authentication message.
C14_Witness ==
    /\ program = "main" /\ EndedAfterRaise
    /\ env.provider = "gemini"
    /\ outcome.status_code = 401
    /\ outcome.value.error[1] = "Google Gemini"
    /\ outcome.value.help[2] = "https://makersuite.google.com/app/apikey"

\* C15: in main.py, an adapter failure whose lower-cased message has none of
\* quota, billing, exceeded, rate limit, too many requests, authentication,
\* invalid with key, unauthorized and api is answered 500 Unexpected Error
\* with the original message.
C15_MainUnmatchedIs500 ==
    (program = "main" /\ EndedAfterRaise
       /\ ~IsQuotaMsg(LowerStr(reply.text))
       /\ ~IsRateLimitMsg(LowerStr(reply.text))
       /\ ~IsAuthMsg(LowerStr(reply.text))
       /\ ~Contains(LowerStr(reply.text), <<"a","p","i">>)) =>
        /\ outcome.kind = "raise"
        /\ outcome.status_code = 500
        /\ outcome.value.error = "Unexpected Error"
        /\ outcome.value.message = <<"An unexpected error occurred: ", reply.text>>

\* C16: a request that passed validation and was answered had exactly one
\* call of the adapter's analyze_code and has exactly one outcome, a result
\* or a categorized failure.
C16_OneCallOneOutcome ==
    (pc = "done"
       /\ (program = "main" =>
             request.code.len \in 1..10000 /\ ~request.code.blank)) =>
        /\ calls = 1
        /\ outcome.kind \in {"return", "raise"}

C17_PauseDoesNotDelayOthers ==
    \A i, j \in ReqIds :
        (reqs[i].pc = "sleeping" /\ reqs[j].pc = "accepted") => ENABLED Start(j)

C21_NeverReturnsEmpty ==
    (hf_pc = "done" /\ hf_result.kind = "text") => hf_result.text # <<>>

IsProbe(e) == e.ev = "probe"
\* The canary probes of the call so far, in order.
Probes == SelectSeq(hf_log, IsProbe)
\* The probe completed with a status other than 410 and 404.
IsClean(e) == IsProbe(e) /\ e.n \notin {0, 410, 404}

\* C22: once the endpoint is selected, the candidates were probed in list
\* order, the selected one is the first whose probe completed with a status
\* other than 410 and 404, or the first candidate when there is none, and
\* every real request went to the selected one.
C22_EndpointSelection ==
    /\ \A k \in DOMAIN Probes : Probes[k].url = k
    /\ hf_pc \in {"request", "waiting", "retry", "done"} =>
         /\ api_url \in {1, 2}
         /\ api_url =
              IF \E k \in DOMAIN Probes : IsClean(Probes[k])
              THEN CHOOSE k \in DOMAIN Probes :
                     /\ IsClean(Probes[k])
                     /\ \A m \in 1..(k - 1) : ~IsClean(Probes[m])
              ELSE 1
         /\ \A k \in DOMAIN Posts : Posts[k].url = api_url
    /\ hf_pc \in {"idle", "probing"} => Posts = <<>>

\* The first candidate probed 404, the second 200: the second was selected
\* and the real request went to it.
C22_Witness ==
    /\ hf_pc = "done"
    /\ Len(Probes) = 2 /\ Probes[1].n = 404 /\ Probes[2].n = 200
    /\ api_url = 2
    /\ Len(Posts) = 1 /\ Posts[1].url = 2

\* C26: a call sends at most 2 probes and at most 2 real requests; no probe
\* follows a real request or a probe that was clean; the retry goes to the
\* URL of the first real request.
C26_RequestCounts ==
    /\ Len(Probes) <= 2
    /\ Len(Posts) <= 2
    /\ Len(Probes) + Len(Posts) <= 4
    /\ \A i, j \in DOMAIN hf_log :
         (i < j /\ IsProbe(hf_log[j])) => IsProbe(hf_log[i]) /\ ~IsClean(hf_log[i])
    /\ Len(Posts) = 2 => Posts[2].url = Posts[1].url

\* Four outbound requests: two probes, neither clean, the real request
\* answered 503 and the retry.
C26_Witness ==
    /\ hf_pc = "done"
    /\ Len(Probes) = 2 /\ Len(Posts) = 2 /\ Len(Sleeps) = 1
    /\ Posts[1].n = 503

\* C24: a call of CodeReviewService.analyze_code that has ended either
\* returned a mapping with exactly the keys summary, issues, suggestions and
\* improved_code, or raised an HTTP error with status 402, 429, 401, 502 or
\* 500.
C24_ServiceTotal ==
    (program = "service" /\ pc = "done") =>
        \/ /\ outcome.kind = "return"
           /\ DOMAIN outcome.value =
                {"summary", "issues", "suggestions", "improved_code"}
        \/ /\ outcome.kind = "raise"
           /\ outcome.status_code \in {402, 429, 401, 502, 500}

\* The adapter returned a JSON value that is not an object: analysis.get
\* raised, _handle_exception was called from the except clause and raised
\* the 500 error.
C24_Witness ==
    /\ program = "service" /\ EndedAfterText
    /\ ParsedReply.ok /\ ParsedReply.val.t = "list"
    /\ outcome.kind = "raise" /\ outcome.status_code = 500

\* C25: for each of the four providers and every adapter outcome, a text or
\* a failure message, analyze_code_with_ai of main.py and
\* CodeReviewService.analyze_code end the same way: the same result, or the
\* same status and payload.
C25_PipelinesEquivalent ==
    (pc = "done" /\ env.provider \in KnownProviders
       /\ reply.kind \in {"text", "raise"}) =>
        analyze_code_with_ai(env.provider, reply) = analyze_code(env.provider, reply)

\* The last real request of the Hugging Face call, once one was answered.
LastPost == Posts[Len(Posts)]

\* C27: with the Hugging Face adapter the status of the last real response
\* decides the failure the caller gets, whatever the response's body is:
\* 401 gives the Authentication-Failed error (401) that names Hugging Face,
\* HUGGINGFACE_API_KEY and huggingface.co/settings/tokens; 403 and 410 give
\* the Upstream-API-Error (502).
C27_StatusDecidesCategory ==
    (pc = "done" /\ env.provider = "huggingface" /\ Posts # <<>>) =>
        /\ LastPost.n = 401 =>
             /\ outcome.kind = "raise" /\ outcome.status_code = 401
             /\ outcome.value =
                  [error |-> <<"Hugging Face", " API Authentication Failed">>,
                   message |-> <<"Invalid API key. Please check your ",
                                 "HUGGINGFACE_API_KEY", " in the backend/.env file.">>,
                   help |-> <<"Get your API key from ",
                              "https://huggingface.co/settings/tokens">>]
        /\ LastPost.n \in {403, 410} =>
             /\ outcome.kind = "raise" /\ outcome.status_code = 502
             /\ outcome.value.error = "OpenAI API Error"

\* A 401 whose body speaks of a quota has ended as Authentication-Failed.
C27_Witness ==
    /\ pc = "done" /\ env.provider = "huggingface" /\ program = "service"
    /\ Len(Posts) = 1 /\ LastPost.n = 401
    /\ hf_response.text = <<"{","\"","e","r","r","o","r","\"",":","\"","q","u","o","t","a","\"","}">>
    /\ outcome.status_code = 401

\* C23: the OpenAI, Groq and Gemini adapters make exactly one backend
\* generation request per analyze_code call, whatever the reply is, and a
\* request answered with a rate-limit failure is the last request of the call:
\* a 429 to a real Hugging Face request ends the adapter's call, and when the
\* caller gets the Rate-Limit error (429) the failing request is the last
\* thing the adapter did.
C23_NoRetry ==
    /\ Len(chat_log) <= 1
    /\ (env.provider \in ChatProviders /\ chat_pc = "done") =>
           /\ Len(chat_log) = 1
           /\ chat_log[1].provider = env.provider
    /\ \A k \in DOMAIN Posts :
           Posts[k].n = 429 =>
               /\ k = Len(Posts)
               /\ hf_log[Len(hf_log)] = Posts[k]
               /\ hf_pc = "done"
    /\ (pc = "done" /\ outcome.status_code = 429) =>
           IF env.provider = "huggingface"
           THEN hf_log # <<>> /\ hf_log[Len(hf_log)].ev = "post"
           ELSE Len(chat_log) = 1

\* Groq answered 429 "Rate limit reached": one request, and the caller has
\* the Rate-Limit error.
C23_Witness ==
    /\ pc = "done" /\ env.provider = "groq"
    /\ chat_log = <<GenerateEvent("groq", 429)>>
    /\ reply = ReplyRaise(<<"G","r","o","q"," ","A","P","I"," ","e","r","r","o","r",":"," ","{","\"","e","r","r","o","r","\"",":","\"","R","a","t","e"," ","l","i","m","i","t"," ","r","e","a","c","h","e","d","\"","}">>)
    /\ outcome.kind = "raise" /\ outcome.status_code = 429

====
